---- MODULE Spec2Model ----
(***************************************************************************)
(* Incident bot: status/severity value types, the incident lifecycle       *)
(* service over its storage tables, and the notification router.           *)
(*                                                                         *)
(* Time is counted in seconds.  Every storage write is stamped with the    *)
(* storage clock (NOW()) and the clock then moves on by StatementSeconds,  *)
(* so two statements awaited one after the other never carry the same      *)
(* instant.                                                                *)
(***************************************************************************)
EXTENDS Integers, Sequences, FiniteSets, TLC

\* ---------------------------------------------------------------- bounds
MaxIncidents == 2
MaxOps == 4
MaxFaults == 1
StatementSeconds == 25

\* ------------------------------------------------------- program constants
SecondsPerMinute == 60

\* ------------------------------------------------------------ Option<T>
None == {}
Some(x) == {x}
IsSome(o) == o # {}
Unwrap(o) == CHOOSE x \in o : TRUE

\* ------------------------------------------------------------ value types
Severity == {"P1", "P2", "P3", "P4"}

IncidentStatus == {"declared", "investigating", "identified", "monitoring", "resolved"}

TimelineEventType == {"declared", "status_update", "severity_change", "resolved"}

Users == {"U1", "U2"}

Services == {"api"}

Contains(seq, x) == \E i \in 1..Len(seq) : seq[i] = x

valid_transitions_no_monitoring_exit(self) ==
    CASE self = "declared" -> <<"investigating", "identified", "monitoring", "resolved">>
      [] self = "investigating" -> <<"identified", "monitoring", "resolved">>
      [] self = "identified" -> <<"monitoring", "resolved">>
      [] self = "monitoring" -> <<>>
      [] self = "resolved" -> <<>>

valid_transitions(self) ==
    CASE self = "declared" -> <<"investigating", "identified", "monitoring", "resolved">>
      [] self = "investigating" -> <<"identified", "monitoring", "resolved">>
      [] self = "identified" -> <<"monitoring", "resolved">>
      [] self = "monitoring" -> <<"resolved">>
      [] self = "resolved" -> <<>>

can_transition_to(self, target) == Contains(valid_transitions(self), target)

is_terminal(self) == self = "resolved"

\* AppConfig as the integration tests build it, and a deployment that lists two
\* broadcast channels and names one P1 recipient twice (the lists are read from
\* the environment as given).
TestConfig ==
    [p1_users |-> <<"U024TEST1">>,
     p2_channels |-> <<"C024TEST1">>,
     p1_channels |-> <<"C024TEST2">>]

Configs ==
    {TestConfig,
     [p1_users |-> <<"U_exec", "U_cto", "U_exec">>,
      p2_channels |-> <<"C_engineering">>,
      p1_channels |-> <<"C_general", "C_leadership">>]}

\* ---------------------------------------------------------------- state
VARIABLES
    incidents,      \* table incidents: id -> row
    timeline,       \* table incident_timeline, rows in insertion order
    audit_log,      \* table audit_log, rows in insertion order
    notifications,  \* table incident_notifications, rows in insertion order
    now,            \* the clock
    last,           \* the call made by the latest step and its outcome
    history,        \* the successful service calls, in invocation order
    faults,         \* the calls that hit a storage failure
    slack_log,      \* the deliveries attempted through the chat client
    throttle_map,   \* NotificationService.throttle_map of the latest instance
    config,         \* AppConfig: the broadcast channels and the P1 recipients
    commands,       \* the number of commands handled
    jobs,           \* the jobs sent on AppState.job_sender, in sending order
    statuspage_mappings,  \* table statuspage_mappings
    callers,        \* the calls running at the same time: where each one stands
    mutex,          \* the holder of the throttle map's lock
    checks,         \* the should_send_dm calls that returned, in order of return
    sm_path,        \* statuses walked through by the transition check
    sm_query,       \* the latest can_transition_to call and its result
    received,       \* the number of jobs JobWorker::start took off the queue
    tasks,          \* the tasks spawned for the received jobs, in spawning order
    worker,         \* where JobWorker::start stands
    senders,        \* whether a sender of the job queue is alive
    statuspage_client,  \* JobWorker.statuspage_client
    statuspage_log, \* the component updates that reached the status page
    requests,       \* the HTTP requests accepted by the chat endpoints, in order
    purge,          \* where the purge of an incident stands
    inflight,       \* a status update running alongside, statement by statement
    named           \* the channel names generated, with their inputs

vars == <<incidents, timeline, audit_log, notifications, now, last, history,
          faults, slack_log, throttle_map, config, commands, jobs,
          statuspage_mappings, callers, mutex, checks, sm_path, sm_query,
          received, tasks, worker, senders, statuspage_client, statuspage_log,
          requests, purge, inflight, named>>

dbVars == <<incidents, timeline, audit_log, notifications, now>>
notifyVars == <<slack_log, throttle_map, config, commands, jobs, statuspage_mappings>>
smVars == <<sm_path, sm_query>>
lockVars == <<callers, mutex, checks>>
workerVars == <<received, tasks, worker, senders, statuspage_client, statuspage_log>>
extraVars == <<requests, purge, inflight, named>>
sideVars == <<workerVars, extraVars>>

NoCall == [op |-> "none"]

\* The rows of statuspage_mappings of an installation that maps its service.
SeededMappings == {[service_name |-> "api", component_id |-> "comp_api"]}

\* ------------------------------------------------------------ more bounds
MaxCallers == 2
MaxChecks == 2
MaxTicks == 3
TickSeconds == 200

\* No should_send_dm call is under way and the lock is free.
Idle == [pc |-> "idle"]

LockInit ==
    /\ callers = [c \in 1..MaxCallers |-> Idle]
    /\ mutex = None
    /\ checks = <<>>

\* The job worker has started, with no status-page client, and has
\* received nothing.
WorkerInit ==
    /\ received = 0
    /\ tasks = <<>>
    /\ worker = "running"
    /\ senders = TRUE
    /\ statuspage_client = None
    /\ statuspage_log = <<>>

\* No request has come in, no purge is under way, no name was generated.
NoPurge == [pc |-> "idle", runs |-> 0]

ExtraInit ==
    /\ requests = <<>>
    /\ purge = NoPurge
    /\ inflight = [pc |-> "idle", runs |-> 0]
    /\ named = <<>>

SideInit == WorkerInit /\ ExtraInit

\* ------------------------------------------- the status transition table
SmInit ==
    /\ sm_path \in {<<s>> : s \in IncidentStatus}
    /\ sm_query = None

CheckTransition(target) ==
    LET from == sm_path[Len(sm_path)] IN
    /\ sm_query' = Some([from |-> from, to |-> target,
                         result |-> can_transition_to(from, target),
                         terminal |-> is_terminal(from)])
    /\ UNCHANGED sm_path

ApplyTransition ==
    /\ IsSome(sm_query)
    /\ Unwrap(sm_query).result
    /\ sm_path' = Append(sm_path, Unwrap(sm_query).to)
    /\ sm_query' = None


\* ---------------------------------------------------------------- storage
\* The tables and the clock as one value, so that a service call is a function
\* from the storage before it to the storage after it.
DB == [incidents |-> incidents, timeline |-> timeline, audit_log |-> audit_log,
       notifications |-> notifications, now |-> now]

Commit(db) ==
    /\ incidents' = db.incidents
    /\ timeline' = db.timeline
    /\ audit_log' = db.audit_log
    /\ notifications' = db.notifications
    /\ now' = db.now

\* A statement takes its NOW() and the clock moves on.
Stamp(db) == [db EXCEPT !.now = @ + StatementSeconds]

NextId(db) == Cardinality(DOMAIN db.incidents) + 1

\* ROUND(EXTRACT(EPOCH FROM (NOW() - declared_at)) / 60) for a span >= 0.
RoundMinutes(seconds) == (2 * seconds + SecondsPerMinute) \div (2 * SecondsPerMinute)

incident_queries_create_incident(db, severity, affected_service, commander_id) ==
    Stamp([db EXCEPT !.incidents = @ @@ (NextId(db) :>
        [id |-> NextId(db),
         slack_channel_id |-> None,
         severity |-> severity,
         status |-> "declared",
         affected_service |-> affected_service,
         commander_id |-> commander_id,
         declared_at |-> db.now,
         resolved_at |-> None,
         duration_minutes |-> None])])

get_incident_by_id(db, id) ==
    IF id \in DOMAIN db.incidents THEN Some(db.incidents[id]) ELSE None

update_severity_reopening(db, incident_id, severity) ==
    IF incident_id \in DOMAIN db.incidents
    THEN Stamp([db EXCEPT !.incidents[incident_id].severity = severity,
                          !.incidents[incident_id].status = "investigating"])
    ELSE Stamp(db)

update_severity(db, incident_id, severity) ==
    IF incident_id \in DOMAIN db.incidents
    THEN Stamp([db EXCEPT !.incidents[incident_id].severity = severity])
    ELSE Stamp(db)

resolve_keeping_resolved_at_unset(db, incident_id) ==
    Stamp([db EXCEPT !.incidents[incident_id] =
        [@ EXCEPT !.status = "resolved",
                  !.duration_minutes = Some(RoundMinutes(db.now - db.incidents[incident_id].declared_at))]])

incident_queries_resolve_incident(db, incident_id) ==
    Stamp([db EXCEPT !.incidents[incident_id] =
        [@ EXCEPT !.status = "resolved",
                  !.resolved_at = Some(db.now),
                  !.duration_minutes = Some(RoundMinutes(db.now - db.incidents[incident_id].declared_at))]])

\* The message texts, kept as the values they are formatted from.
Message(text, from, to, hours, mins) ==
    [text |-> text, from |-> from, to |-> to, hours |-> hours, mins |-> mins]

log_event_with_constant_timestamp(db, incident_id, event_type, message, posted_by) ==
    Stamp([db EXCEPT !.timeline = Append(@,
        [incident_id |-> incident_id,
         event_type |-> event_type,
         message |-> message,
         posted_by |-> posted_by,
         timestamp |-> 0])])

log_event_overwriting_the_latest(db, incident_id, event_type, message, posted_by) ==
    LET row == [incident_id |-> incident_id,
                event_type |-> event_type,
                message |-> message,
                posted_by |-> posted_by,
                timestamp |-> db.now]
    IN  Stamp([db EXCEPT !.timeline =
            IF \E i \in 1..Len(@) : @[i].incident_id = incident_id /\ @[i].event_type = event_type
            THEN [i \in 1..Len(@) |->
                     IF @[i].incident_id = incident_id /\ @[i].event_type = event_type
                     THEN row ELSE @[i]]
            ELSE Append(@, row)])

timeline_queries_log_event(db, incident_id, event_type, message, posted_by) ==
    Stamp([db EXCEPT !.timeline = Append(@,
        [incident_id |-> incident_id,
         event_type |-> event_type,
         message |-> message,
         posted_by |-> posted_by,
         timestamp |-> db.now])])

\* SELECT ... WHERE incident_id = $1 ORDER BY timestamp ASC: every order of the
\* incident's rows that ascends by timestamp (rows of equal timestamp come in
\* either order).
RECURSIVE AscendingOrders(_, _)
AscendingOrders(rows, idx) ==
    IF idx = {} THEN {<<>>}
    ELSE UNION {{<<rows[i]>> \o rest : rest \in AscendingOrders(rows, idx \ {i})} :
                i \in {j \in idx : \A k \in idx : rows[j].timestamp <= rows[k].timestamp}}

get_timeline(db, incident_id) ==
    AscendingOrders(db.timeline,
        {i \in 1..Len(db.timeline) : db.timeline[i].incident_id = incident_id})

audit_log_action(db, incident_id, action, actor_id, old_state, new_state) ==
    Stamp([db EXCEPT !.audit_log = Append(@,
        [incident_id |-> incident_id,
         action |-> action,
         actor_id |-> actor_id,
         old_state |-> old_state,
         new_state |-> new_state])])

\* ----------------------------------------------------- IncidentService
\* A call's outcome: the storage it leaves, the result kind and the returned
\* incident.  fault is the number of the storage statement of the call that
\* fails (0: none fails).
Ok(db, incident) == [db |-> db, res |-> "Ok", ret |-> Some(incident)]
Err(db, kind) == [db |-> db, res |-> kind, ret |-> None]

validate_commander_accepting_anyone(incident, user_id) == TRUE

validate_commander(incident, user_id) == incident.commander_id = user_id

create_incident_without_audit(db, severity, affected_service, commander_id, fault) ==
    IF fault = 1 THEN Err(db, "DatabaseError")
    ELSE
    LET d1 == incident_queries_create_incident(db, severity, affected_service, commander_id)
        incident == d1.incidents[NextId(db)]
        d2 == timeline_queries_log_event(d1, incident.id, "declared",
                  Message("Incident declared", "", "", 0, 0), commander_id)
    IN  IF fault = 2 THEN Err(d1, "DatabaseError")
        ELSE Ok(d2, incident)

IncidentService_create_incident(db, severity, affected_service, commander_id, fault) ==
    IF fault = 1 THEN Err(db, "DatabaseError")
    ELSE
    LET d1 == incident_queries_create_incident(db, severity, affected_service, commander_id)
        incident == d1.incidents[NextId(db)]
        d2 == timeline_queries_log_event(d1, incident.id, "declared",
                  Message("Incident declared", "", "", 0, 0), commander_id)
        d3 == audit_log_action(d2, Some(incident.id), "declare_incident",
                  commander_id, None, Some(severity))
    IN  IF fault = 2 THEN Err(d1, "DatabaseError")
        ELSE IF fault = 3 THEN Err(d2, "DatabaseError")
        ELSE Ok(d3, incident)


post_status_update_on_resolved_too(db, incident_id, message, posted_by, fault) ==
    IF fault = 1 THEN Err(db, "DatabaseError")
    ELSE IF get_incident_by_id(db, incident_id) = None THEN Err(db, "NotFound")
    ELSE IF ~validate_commander(db.incidents[incident_id], posted_by)
         THEN Err(db, "PermissionDenied")
    ELSE
    LET d1 == timeline_queries_log_event(db, incident_id, "status_update",
                  Message(message, "", "", 0, 0), posted_by)
        d2 == audit_log_action(d1, Some(incident_id), "post_status_update",
                  posted_by, None, None)
    IN  IF fault = 2 THEN Err(db, "DatabaseError")
        ELSE IF fault = 3 THEN Err(d1, "DatabaseError")
        ELSE IF fault = 4 THEN Err(d2, "DatabaseError")
        ELSE Ok(d2, d2.incidents[incident_id])

IncidentService_post_status_update(db, incident_id, message, posted_by, fault) ==
    IF fault = 1 THEN Err(db, "DatabaseError")
    ELSE IF get_incident_by_id(db, incident_id) = None THEN Err(db, "NotFound")
    ELSE IF ~validate_commander(db.incidents[incident_id], posted_by)
         THEN Err(db, "PermissionDenied")
    ELSE IF is_terminal(db.incidents[incident_id].status)
         THEN Err(db, "ValidationError")
    ELSE
    LET d1 == timeline_queries_log_event(db, incident_id, "status_update",
                  Message(message, "", "", 0, 0), posted_by)
        d2 == audit_log_action(d1, Some(incident_id), "post_status_update",
                  posted_by, None, None)
    IN  IF fault = 2 THEN Err(db, "DatabaseError")
        ELSE IF fault = 3 THEN Err(d1, "DatabaseError")
        ELSE IF fault = 4 THEN Err(d2, "DatabaseError")
        ELSE Ok(d2, d2.incidents[incident_id])

\* The second component of the returned pair is old_severity.
change_severity_rejecting_resolved(db, incident_id, new_severity, changed_by, fault) ==
    IF fault = 1 THEN Err(db, "DatabaseError") @@ [old |-> None]
    ELSE IF get_incident_by_id(db, incident_id) = None
         THEN Err(db, "NotFound") @@ [old |-> None]
    ELSE IF ~validate_commander(db.incidents[incident_id], changed_by)
         THEN Err(db, "PermissionDenied") @@ [old |-> None]
    ELSE IF is_terminal(db.incidents[incident_id].status)
         THEN Err(db, "ValidationError") @@ [old |-> None]
    ELSE
    LET old_severity == db.incidents[incident_id].severity
        d1 == update_severity(db, incident_id, new_severity)
        d2 == timeline_queries_log_event(d1, incident_id, "severity_change",
                  Message("Severity changed", old_severity, new_severity, 0, 0),
                  changed_by)
        d3 == audit_log_action(d2, Some(incident_id), "change_severity",
                  changed_by, Some(old_severity), Some(new_severity))
    IN  IF fault = 2 THEN Err(db, "DatabaseError") @@ [old |-> None]
        ELSE IF fault = 3 THEN Err(d1, "DatabaseError") @@ [old |-> None]
        ELSE IF fault = 4 THEN Err(d2, "DatabaseError") @@ [old |-> None]
        ELSE IF fault = 5 THEN Err(d3, "DatabaseError") @@ [old |-> None]
        ELSE Ok(d3, d3.incidents[incident_id]) @@ [old |-> Some(old_severity)]

change_severity_updating_before_the_check(db, incident_id, new_severity, changed_by, fault) ==
    IF fault = 1 THEN Err(db, "DatabaseError") @@ [old |-> None]
    ELSE IF get_incident_by_id(db, incident_id) = None
         THEN Err(db, "NotFound") @@ [old |-> None]
    ELSE IF ~validate_commander(db.incidents[incident_id], changed_by)
         THEN Err(update_severity(db, incident_id, new_severity), "PermissionDenied")
                  @@ [old |-> None]
    ELSE
    LET old_severity == db.incidents[incident_id].severity
        d1 == update_severity(db, incident_id, new_severity)
        d2 == timeline_queries_log_event(d1, incident_id, "severity_change",
                  Message("Severity changed", old_severity, new_severity, 0, 0),
                  changed_by)
        d3 == audit_log_action(d2, Some(incident_id), "change_severity",
                  changed_by, Some(old_severity), Some(new_severity))
    IN  IF fault = 2 THEN Err(db, "DatabaseError") @@ [old |-> None]
        ELSE IF fault = 3 THEN Err(d1, "DatabaseError") @@ [old |-> None]
        ELSE IF fault = 4 THEN Err(d2, "DatabaseError") @@ [old |-> None]
        ELSE IF fault = 5 THEN Err(d3, "DatabaseError") @@ [old |-> None]
        ELSE Ok(d3, d3.incidents[incident_id]) @@ [old |-> Some(old_severity)]

IncidentService_change_severity(db, incident_id, new_severity, changed_by, fault) ==
    IF fault = 1 THEN Err(db, "DatabaseError") @@ [old |-> None]
    ELSE IF get_incident_by_id(db, incident_id) = None
         THEN Err(db, "NotFound") @@ [old |-> None]
    ELSE IF ~validate_commander(db.incidents[incident_id], changed_by)
         THEN Err(db, "PermissionDenied") @@ [old |-> None]
    ELSE
    LET old_severity == db.incidents[incident_id].severity
        d1 == update_severity(db, incident_id, new_severity)
        d2 == timeline_queries_log_event(d1, incident_id, "severity_change",
                  Message("Severity changed", old_severity, new_severity, 0, 0),
                  changed_by)
        d3 == audit_log_action(d2, Some(incident_id), "change_severity",
                  changed_by, Some(old_severity), Some(new_severity))
    IN  IF fault = 2 THEN Err(db, "DatabaseError") @@ [old |-> None]
        ELSE IF fault = 3 THEN Err(d1, "DatabaseError") @@ [old |-> None]
        ELSE IF fault = 4 THEN Err(d2, "DatabaseError") @@ [old |-> None]
        ELSE IF fault = 5 THEN Err(d3, "DatabaseError") @@ [old |-> None]
        ELSE Ok(d3, d3.incidents[incident_id]) @@ [old |-> Some(old_severity)]

\* "{}h {}min" when hours > 0, "{}min" otherwise.
DurationText(duration) ==
    Message("Incident resolved", "", "", duration \div 60, duration % 60)

resolve_incident_again_when_resolved(db, incident_id, resolved_by, fault) ==
    IF fault = 1 THEN Err(db, "DatabaseError")
    ELSE IF get_incident_by_id(db, incident_id) = None THEN Err(db, "NotFound")
    ELSE IF ~validate_commander(db.incidents[incident_id], resolved_by)
         THEN Err(db, "PermissionDenied")
    ELSE
    LET incident == db.incidents[incident_id]
        d1 == incident_queries_resolve_incident(db, incident_id)
        resolved_incident == d1.incidents[incident_id]
        d2 == timeline_queries_log_event(d1, incident_id, "resolved",
                  DurationText(Unwrap(resolved_incident.duration_minutes)), resolved_by)
        d3 == audit_log_action(d2, Some(incident_id), "resolve_incident",
                  resolved_by, Some(incident.status), Some("resolved"))
    IN  IF fault = 2 THEN Err(db, "DatabaseError")
        ELSE IF fault = 3 THEN Err(d1, "DatabaseError")
        ELSE IF fault = 4 THEN Err(d2, "DatabaseError")
        ELSE Ok(d3, resolved_incident)

resolve_incident_rolling_back(db, incident_id, resolved_by, fault) ==
    IF fault = 1 THEN Err(db, "DatabaseError")
    ELSE IF get_incident_by_id(db, incident_id) = None THEN Err(db, "NotFound")
    ELSE IF ~validate_commander(db.incidents[incident_id], resolved_by)
         THEN Err(db, "PermissionDenied")
    ELSE IF is_terminal(db.incidents[incident_id].status)
         THEN Ok(db, db.incidents[incident_id])
    ELSE
    LET incident == db.incidents[incident_id]
        d1 == incident_queries_resolve_incident(db, incident_id)
        resolved_incident == d1.incidents[incident_id]
        d2 == timeline_queries_log_event(d1, incident_id, "resolved",
                  DurationText(Unwrap(resolved_incident.duration_minutes)), resolved_by)
        d3 == audit_log_action(d2, Some(incident_id), "resolve_incident",
                  resolved_by, Some(incident.status), Some("resolved"))
    IN  IF fault \in {2, 3, 4} THEN Err(db, "DatabaseError")
        ELSE Ok(d3, resolved_incident)

IncidentService_resolve_incident(db, incident_id, resolved_by, fault) ==
    IF fault = 1 THEN Err(db, "DatabaseError")
    ELSE IF get_incident_by_id(db, incident_id) = None THEN Err(db, "NotFound")
    ELSE IF ~validate_commander(db.incidents[incident_id], resolved_by)
         THEN Err(db, "PermissionDenied")
    ELSE IF is_terminal(db.incidents[incident_id].status)
         THEN Ok(db, db.incidents[incident_id])
    ELSE
    LET incident == db.incidents[incident_id]
        d1 == incident_queries_resolve_incident(db, incident_id)
        resolved_incident == d1.incidents[incident_id]
        d2 == timeline_queries_log_event(d1, incident_id, "resolved",
                  DurationText(Unwrap(resolved_incident.duration_minutes)), resolved_by)
        d3 == audit_log_action(d2, Some(incident_id), "resolve_incident",
                  resolved_by, Some(incident.status), Some("resolved"))
    IN  IF fault = 2 THEN Err(db, "DatabaseError")
        ELSE IF fault = 3 THEN Err(d1, "DatabaseError")
        ELSE IF fault = 4 THEN Err(d2, "DatabaseError")
        ELSE Ok(d3, resolved_incident)

\* ------------------------------------------------ the lifecycle, call by call
Messages == {"Investigating"}

\* The severities the lifecycle calls are made with (the service never
\* branches on the severity value).
LifecycleSeverity == {"P1", "P3"}

\* The stored incidents and one id that no incident has.
IncidentIds == 1..NextId(DB)

\* What a step records of its call: the arguments, the stored incident before
\* the call (pre), the result kind and the returned values.
Call(op, incident_id, actor, pre, r, old) ==
    [op |-> op, incident_id |-> incident_id, actor |-> actor,
     pre |-> pre, res |-> r.res, ret |-> r.ret, old |-> old]

\* Successful calls are kept in invocation order; noop marks a call that found
\* nothing to do.
Record(r, op, incident_id, noop) ==
    /\ history' = IF r.res = "Ok"
                  THEN Append(history, [op |-> op, incident_id |-> incident_id, noop |-> noop])
                  ELSE history
    /\ faults' = IF r.res = "DatabaseError" THEN Append(faults, incident_id) ELSE faults

MayFail(fault) == fault # 0 => Len(faults) < MaxFaults

\* How far a specification lets the lifecycle run: the number of successful
\* calls and the number of incidents.
Limits == [ops |-> MaxOps, incidents |-> MaxIncidents]

\* One incident, followed one call further.
SingleIncident == [ops |-> MaxOps + 1, incidents |-> 1]

CreateIncident(F, L) ==
    \E severity \in LifecycleSeverity, service \in Services, commander \in Users, fault \in F :
        /\ Len(history) < L.ops
        /\ NextId(DB) <= L.incidents
        /\ MayFail(fault)
        /\ LET r == IncidentService_create_incident(DB, severity, service, commander, fault)
               id == IF NextId(r.db) > NextId(DB) THEN NextId(DB) ELSE 0
           IN  /\ Commit(r.db)
               /\ last' = Call("create_incident", id, commander, None, r, None)
                              @@ [severity |-> severity, service |-> service]
               /\ Record(r, "create_incident", id, FALSE)
        /\ UNCHANGED <<notifyVars, smVars, lockVars, sideVars>>

PostStatusUpdate(F, L) ==
    \E id \in IncidentIds, message \in Messages, actor \in Users, fault \in F :
        /\ Len(history) < L.ops
        /\ MayFail(fault)
        /\ LET r == IncidentService_post_status_update(DB, id, message, actor, fault)
           IN  /\ Commit(r.db)
               /\ last' = Call("post_status_update", id, actor, get_incident_by_id(DB, id), r, None)
               /\ Record(r, "post_status_update", id, FALSE)
        /\ UNCHANGED <<notifyVars, smVars, lockVars, sideVars>>

ChangeSeverity(F, L) ==
    \E id \in IncidentIds, severity \in LifecycleSeverity, actor \in Users, fault \in F :
        /\ Len(history) < L.ops
        /\ MayFail(fault)
        /\ LET r == IncidentService_change_severity(DB, id, severity, actor, fault)
           IN  /\ Commit(r.db)
               /\ last' = Call("change_severity", id, actor, get_incident_by_id(DB, id), r, r.old)
                              @@ [severity |-> severity]
               /\ Record(r, "change_severity", id, FALSE)
        /\ UNCHANGED <<notifyVars, smVars, lockVars, sideVars>>

ResolveIncident(F, L) ==
    \E id \in IncidentIds, actor \in Users, fault \in F :
        /\ Len(history) < L.ops
        /\ MayFail(fault)
        /\ LET r == IncidentService_resolve_incident(DB, id, actor, fault)
               pre == get_incident_by_id(DB, id)
           IN  /\ Commit(r.db)
               /\ last' = Call("resolve_incident", id, actor, pre, r, None)
               /\ Record(r, "resolve_incident", id,
                         IsSome(pre) /\ is_terminal(Unwrap(pre).status))
        /\ UNCHANGED <<notifyVars, smVars, lockVars, sideVars>>

Init ==
    /\ incidents = <<>>
    /\ timeline = <<>>
    /\ audit_log = <<>>
    /\ notifications = <<>>
    /\ now = 0
    /\ last = NoCall
    /\ history = <<>>
    /\ faults = <<>>
    /\ slack_log = <<>>
    /\ throttle_map = <<>>
    /\ config = TestConfig
    /\ commands = 0
    /\ sm_path = <<"declared">>
    /\ sm_query = None
    /\ LockInit
    /\ SideInit
    /\ jobs = <<>>
    /\ statuspage_mappings = SeededMappings

\* The lifecycle over a storage that never fails.
Next ==
    \/ CreateIncident({0}, Limits)
    \/ PostStatusUpdate({0}, Limits)
    \/ ChangeSeverity({0}, Limits)
    \/ ResolveIncident({0}, Limits)

Spec == Init /\ [][Next]_vars

\* The lifecycle of a single incident over a storage that never fails.
NextSingle ==
    \/ CreateIncident({0}, SingleIncident)
    \/ PostStatusUpdate({0}, SingleIncident)
    \/ ChangeSeverity({0}, SingleIncident)
    \/ ResolveIncident({0}, SingleIncident)

SpecSingle == Init /\ [][NextSingle]_vars


\* The transition table, applied to every pair of statuses.
InitStatus ==
    /\ incidents = <<>>
    /\ timeline = <<>>
    /\ audit_log = <<>>
    /\ notifications = <<>>
    /\ now = 0
    /\ last = NoCall
    /\ history = <<>>
    /\ faults = <<>>
    /\ slack_log = <<>>
    /\ throttle_map = <<>>
    /\ config = TestConfig
    /\ commands = 0
    /\ SmInit
    /\ LockInit
    /\ SideInit
    /\ jobs = <<>>
    /\ statuspage_mappings = SeededMappings

NextStatus ==
    \/ \E target \in IncidentStatus :
           CheckTransition(target) /\ UNCHANGED <<dbVars, last, history, faults, notifyVars, lockVars, sideVars>>
    \/ ApplyTransition /\ UNCHANGED <<dbVars, last, history, faults, notifyVars, lockVars, sideVars>>

SpecStatus == InitStatus /\ [][NextStatus]_vars

\* ------------------------------------------------- NotificationService
ThrottleSeconds == 300
RetainSeconds == 600

NotificationType == {"slack_channel", "slack_dm"}

NotificationStatus == {"sent", "failed", "pending", "throttled"}

log_notification_as_sent(db, incident_id, notification_type, recipient, status) ==
    Stamp([db EXCEPT !.notifications = Append(@,
        [incident_id |-> incident_id,
         notification_type |-> notification_type,
         recipient |-> recipient,
         sent_at |-> db.now,
         status |-> "sent"])])

log_notification(db, incident_id, notification_type, recipient, status) ==
    Stamp([db EXCEPT !.notifications = Append(@,
        [incident_id |-> incident_id,
         notification_type |-> notification_type,
         recipient |-> recipient,
         sent_at |-> db.now,
         status |-> status])])

\* What a notification call works on: the storage, the calls made to the chat
\* client so far and the throttle map of the service instance.  down is the
\* set of recipients the chat client cannot reach during the call.
World == [db |-> DB, slack |-> slack_log, throttle |-> throttle_map,
          jobs |-> jobs, mappings |-> statuspage_mappings]

CommitWorld(w) ==
    /\ Commit(w.db)
    /\ slack_log' = w.slack
    /\ throttle_map' = w.throttle
    /\ jobs' = w.jobs

NotificationService_new(w) == [w EXCEPT !.throttle = <<>>]

post_message(w, channel_id, down) ==
    [w EXCEPT !.slack = Append(@, [method |-> "post_message",
                                   recipient |-> channel_id,
                                   ok |-> channel_id \notin down,
                                   error |-> IF channel_id \notin down THEN "" ELSE "channel_not_found"])]

SlackClient_send_dm(w, user_id, down) ==
    [w EXCEPT !.slack = Append(@, [method |-> "send_dm",
                                   recipient |-> user_id,
                                   ok |-> user_id \notin down,
                                   error |-> IF user_id \notin down THEN "" ELSE "user_not_found"])]

Retained_up_to_the_window(t, at) ==
    [k \in {k \in DOMAIN t : at - t[k] <= RetainSeconds} |-> t[k]]

\* throttle_map.retain(|_, last_sent| (now - last_sent).num_seconds() < 600)
Retained(t, at) == [k \in {k \in DOMAIN t : at - t[k] < RetainSeconds} |-> t[k]]

\* if let Some(last_sent) = throttle_map.get(&key) { elapsed < 300 }
InCooldown(t, key, at) == key \in DOMAIN t /\ at - t[key] < ThrottleSeconds

\* throttle_map.insert(key, now)
Inserted(t, key, at) == [k \in DOMAIN t \cup {key} |-> IF k = key THEN at ELSE t[k]]

\* One call from locking the map to releasing it, nothing else running.
should_send_dm(w, user_id, incident_id) ==
    LET retained == Retained(w.throttle, w.db.now)
        key == <<user_id, incident_id>>
    IN  IF InCooldown(retained, key, w.db.now)
        THEN [w |-> [w EXCEPT !.throttle = retained], ret |-> FALSE]
        ELSE [w |-> [w EXCEPT !.throttle = Inserted(retained, key, w.db.now)],
              ret |-> TRUE]

send_to_channel(w, incident_id, channel_id, down) ==
    LET w1 == post_message(w, channel_id, down) IN
    IF channel_id \notin down
    THEN [w |-> [w1 EXCEPT !.db = log_notification(@, incident_id, "slack_channel", channel_id, "sent")],
          res |-> "Ok"]
    ELSE [w |-> [w1 EXCEPT !.db = log_notification(@, incident_id, "slack_channel", channel_id, "failed")],
          res |-> "SlackAPIError"]

send_dm_returning_the_failure(w, incident_id, user_id, down) ==
    LET w1 == SlackClient_send_dm(w, user_id, down) IN
    IF user_id \notin down
    THEN [w |-> [w1 EXCEPT !.db = log_notification(@, incident_id, "slack_dm", user_id, "sent")],
          res |-> "Ok"]
    ELSE [w |-> [w1 EXCEPT !.db = log_notification(@, incident_id, "slack_dm", user_id, "failed")],
          res |-> "SlackAPIError"]

send_dm_forgetting_a_failed_send(w, incident_id, user_id, down) ==
    LET w1 == SlackClient_send_dm(w, user_id, down) IN
    IF user_id \notin down
    THEN [w |-> [w1 EXCEPT !.db = log_notification(@, incident_id, "slack_dm", user_id, "sent")],
          res |-> "Ok"]
    ELSE [w |-> [w1 EXCEPT !.db = log_notification(@, incident_id, "slack_dm", user_id, "failed"),
                           !.throttle = [k \in DOMAIN @ \ {<<user_id, incident_id>>} |-> @[k]]],
          res |-> "Ok"]

send_dm(w, incident_id, user_id, down) ==
    LET w1 == SlackClient_send_dm(w, user_id, down) IN
    IF user_id \notin down
    THEN [w |-> [w1 EXCEPT !.db = log_notification(@, incident_id, "slack_dm", user_id, "sent")],
          res |-> "Ok"]
    ELSE [w |-> [w1 EXCEPT !.db = log_notification(@, incident_id, "slack_dm", user_id, "failed")],
          res |-> "Ok"]

\* if let Some(channel_id) = &incident.slack_channel_id
OwnChannel(incident) ==
    IF IsSome(incident.slack_channel_id) THEN <<Unwrap(incident.slack_channel_id)>> ELSE <<>>

\* for channel_id in channels { send_to_channel(..).await?; }
RECURSIVE send_to_each_channel(_, _, _, _)
send_to_each_channel(r, incident_id, channels, down) ==
    IF r.res # "Ok" \/ channels = <<>> THEN r
    ELSE send_to_each_channel(send_to_channel(r.w, incident_id, Head(channels), down),
                              incident_id, Tail(channels), down)

\* for user_id in &self.config.p1_users { ... }
RECURSIVE dm_each_user(_, _, _, _)
dm_each_user(r, incident_id, users, down) ==
    IF r.res # "Ok" \/ users = <<>> THEN r
    ELSE LET s == should_send_dm(r.w, Head(users), incident_id)
             sent == IF s.ret
                     THEN send_dm(s.w, incident_id, Head(users), down)
                     ELSE [w |-> [s.w EXCEPT !.db = log_notification(@, incident_id,
                                      "slack_dm", Head(users), "throttled")],
                           res |-> "Ok"]
         IN  dm_each_user(sent, incident_id, Tail(users), down)

route_by_severity_with_dm_for_p2(w, cfg, incident, down) ==
    LET start == [w |-> w, res |-> "Ok"] IN
    CASE incident.severity = "P1" ->
            dm_each_user(send_to_each_channel(start, incident.id,
                             OwnChannel(incident) \o cfg.p1_channels, down),
                         incident.id, cfg.p1_users, down)
      [] incident.severity = "P2" ->
            dm_each_user(send_to_each_channel(start, incident.id,
                             OwnChannel(incident) \o cfg.p2_channels, down),
                         incident.id, cfg.p1_users, down)
      [] OTHER ->
            send_to_each_channel(start, incident.id, OwnChannel(incident), down)

route_by_severity_dms_first(w, cfg, incident, down) ==
    LET start == [w |-> w, res |-> "Ok"] IN
    CASE incident.severity = "P1" ->
            send_to_each_channel(dm_each_user(start, incident.id, cfg.p1_users, down),
                                 incident.id, OwnChannel(incident) \o cfg.p1_channels, down)
      [] incident.severity = "P2" ->
            send_to_each_channel(start, incident.id,
                OwnChannel(incident) \o cfg.p2_channels, down)
      [] OTHER ->
            send_to_each_channel(start, incident.id, OwnChannel(incident), down)

route_by_severity(w, cfg, incident, down) ==
    LET start == [w |-> w, res |-> "Ok"] IN
    CASE incident.severity = "P1" ->
            dm_each_user(send_to_each_channel(start, incident.id,
                             OwnChannel(incident) \o cfg.p1_channels, down),
                         incident.id, cfg.p1_users, down)
      [] incident.severity = "P2" ->
            send_to_each_channel(start, incident.id,
                OwnChannel(incident) \o cfg.p2_channels, down)
      [] OTHER ->
            send_to_each_channel(start, incident.id, OwnChannel(incident), down)

notify_incident_declared(w, cfg, incident, down) ==
    route_by_severity(w, cfg, incident, down)

notify_status_update(w, cfg, incident, down) ==
    send_to_each_channel([w |-> w, res |-> "Ok"], incident.id, OwnChannel(incident), down)

notify_severity_change_broad_for_p1_only(w, cfg, incident, old_severity, down) ==
    LET escalating_to_p1 == incident.severity = "P1" /\ old_severity # "P1" IN
    IF escalating_to_p1
    THEN route_by_severity(w, cfg, incident, down)
    ELSE send_to_each_channel([w |-> w, res |-> "Ok"], incident.id, OwnChannel(incident), down)

notify_severity_change(w, cfg, incident, old_severity, down) ==
    LET escalating_to_p1 == incident.severity = "P1" /\ old_severity # "P1"
        escalating_to_p2 == incident.severity = "P2" /\ old_severity # "P2"
    IN  IF escalating_to_p1 \/ escalating_to_p2
        THEN route_by_severity(w, cfg, incident, down)
        ELSE send_to_each_channel([w |-> w, res |-> "Ok"], incident.id,
                                  OwnChannel(incident), down)

notify_resolution(w, cfg, incident, down) ==
    route_by_severity(w, cfg, incident, down)

\* ------------------------------------------------ the command handlers
\* The id the chat platform gives the channel created for an incident.
ChannelOf(id) == "C_inc" \o ToString(id)

\* INSERT INTO incidents (..., declared_at, slack_channel_id)
\* VALUES (..., 'declared', NOW(), $6)
insert_incident_with_channel(db, severity, affected_service, commander_id, channel_id) ==
    [incident_queries_create_incident(db, severity, affected_service, commander_id)
        EXCEPT !.incidents[NextId(db)].slack_channel_id = Some(channel_id)]

\* The id with the greatest declared_at among ids.
Latest(db, ids) ==
    CHOOSE i \in ids : \A j \in ids : db.incidents[j].declared_at <= db.incidents[i].declared_at

get_incident_by_channel(db, channel_id) ==
    LET ids == {i \in DOMAIN db.incidents :
                    /\ db.incidents[i].slack_channel_id = Some(channel_id)
                    /\ db.incidents[i].status # "resolved"}
    IN  IF ids = {} THEN None ELSE Some(db.incidents[CHOOSE i \in ids : TRUE])

get_latest_incident_by_channel(db, channel_id) ==
    LET ids == {i \in DOMAIN db.incidents :
                    db.incidents[i].slack_channel_id = Some(channel_id)}
    IN  IF ids = {} THEN None ELSE Some(db.incidents[Latest(db, ids)])

\* What a handler run leaves: the world, how the command ended (res), how the
\* notification call ended (notify, "none" when none was made), the incident
\* before and after, the severity replaced, and the number of chat-client
\* calls made before the notification call.
Outcome(w, res, notify, pre, ret, old, slack_from) ==
    [w |-> w, res |-> res, notify |-> notify, pre |-> pre, ret |-> ret,
     old |-> old, slack_from |-> slack_from]

Replied(w, res, pre) == Outcome(w, res, "none", pre, None, None, Len(w.slack))

\* ------------------------------------------------------ the job queue
\* SELECT component_id FROM statuspage_mappings WHERE service_name = $1
get_component_id(w, service_name) ==
    LET rows == {m \in w.mappings : m.service_name = service_name}
    IN  IF rows = {} THEN None ELSE Some((CHOOSE m \in rows : TRUE).component_id)

\* `if let Ok(Some(component_id)) = get_component_id(..)` followed by
\* job_sender.send(job), whose failure is logged.  lookup_fails: the SELECT
\* fails; send_fails: the receiving end of the queue is gone.
enqueue_statuspage_sync(w, incident, lookup_fails, send_fails) ==
    LET found == IF lookup_fails THEN None ELSE get_component_id(w, incident.affected_service)
    IN  IF found = None \/ send_fails THEN w
        ELSE [w EXCEPT !.jobs = Append(@, [incident_id |-> incident.id,
                                           component_id |-> Unwrap(found),
                                           status |-> incident.status,
                                           severity |-> incident.severity])]

\* ------------------------------------------------------- channel names
\* Text is kept as a sequence of one-character strings.
SlugLimit == 40
NameLimit == 80
ShortSuffix == 4
LongSuffix == 8
SecondsPerDay == 86400

RECURSIVE Text(_)
Text(chars) == IF chars = <<>> THEN "" ELSE Head(chars) \o Text(Tail(chars))

Take(chars, n) == SubSeq(chars, 1, IF Len(chars) < n THEN Len(chars) ELSE n)

Repeat(c, n) == [i \in 1..n |-> c]

\* The service names the channel names are generated for, character by
\* character: the names of the unit tests, a name without a letter or digit, a
\* long name, and two names with a letter outside ASCII.
KnownNames ==
    {<<>>,
     <<"V", "P", "N">>,
     <<"O", "k", "t", "a", " ", "S", "S", "O">>,
     <<"E", "m", "a", "i", "l", "_", "S", "e", "r", "v", "i", "c", "e", "@",
       "2", "0", "2", "4">>,
     <<"@", "#", "!">>,
     <<"L", "o", "n", "g", " ">> \o Repeat("x", 60),
     <<"a">> \o Repeat("é", 20),
     Repeat("é", 25)}

Chars(service) ==
    CASE service = "api" -> <<"a", "p", "i">>
      [] OTHER -> CHOOSE chars \in KnownNames : Text(chars) = service

\* char::is_alphanumeric: the letters and digits of Unicode.
Alphanumeric == {"a", "b", "c", "d", "e", "f", "g", "h", "i", "j", "k", "l", "m",
                 "n", "o", "p", "q", "r", "s", "t", "u", "v", "w", "x", "y", "z",
                 "0", "1", "2", "3", "4", "5", "6", "7", "8", "9", "é"}

Uppercase == <<"A", "E", "I", "L", "O", "P", "S", "V", "N", "É">>
Lowercase == <<"a", "e", "i", "l", "o", "p", "s", "v", "n", "é">>

to_lowercase(c) ==
    IF \E i \in 1..Len(Uppercase) : Uppercase[i] = c
    THEN Lowercase[CHOOSE i \in 1..Len(Uppercase) : Uppercase[i] = c]
    ELSE c

replace_separators(c) == IF c \in {" ", "_"} THEN "-" ELSE c

KeptInSlug(c) == c \in Alphanumeric \/ c = "-"

\* The length of a character in UTF-8.
len_utf8(c) == IF c \in {"é", "É"} THEN 2 ELSE 1

\* str::len(): the length in bytes.
RECURSIVE ByteLen(_)
ByteLen(chars) == IF chars = <<>> THEN 0 ELSE len_utf8(Head(chars)) + ByteLen(Tail(chars))

is_char_boundary(chars, n) ==
    \E k \in 0..Len(chars) : ByteLen(SubSeq(chars, 1, k)) = n

\* &s[..n] for an n that is a character boundary of s.
SliceTo(chars, n) ==
    SubSeq(chars, 1, CHOOSE k \in 0..Len(chars) : ByteLen(SubSeq(chars, 1, k)) = n)

\* What stands for a call that panicked instead of returning a name.
Panicked == <<"panicked">>

\* date.format("%Y%m%d"), the clock starting on 2024-01-01.
format_date(t) == <<"2", "0", "2", "4", "0", "1", "0", ToString(1 + t \div SecondsPerDay)>>

\* IncidentId::to_string(): the 36 characters of a version-4 UUID.
IncidentIdChars(incident_id) ==
    [i \in 1..36 |-> IF i \in {9, 14, 19, 24} THEN "-"
                     ELSE IF i = 15 THEN "4"
                     ELSE IF i = 8 THEN ToString(incident_id)
                     ELSE "0"]

\* The slug of a service name: lowercased, spaces and underscores replaced by
\* hyphens, every other character that is not alphanumeric dropped.
slug_of(chars) ==
    SelectSeq([i \in 1..Len(chars) |-> replace_separators(to_lowercase(chars[i]))],
              KeptInSlug)

\* The name composed of the date and the truncated slug, or the name of the
\* date and the first characters of the incident id when it is too long.
name_of(base, date, incident_id) ==
    IF ByteLen(base) > NameLimit
    THEN <<"i", "n", "c", "-">> \o format_date(date) \o <<"-">>
             \o Take(IncidentIdChars(incident_id), ShortSuffix)
    ELSE base

name_of_slug(slug, date, incident_id) ==
    IF ByteLen(slug) <= SlugLimit
    THEN name_of(<<"i", "n", "c", "-">> \o format_date(date) \o <<"-">> \o slug,
                 date, incident_id)
    ELSE IF ~is_char_boundary(slug, SlugLimit)
    THEN Panicked
    ELSE name_of(<<"i", "n", "c", "-">> \o format_date(date) \o <<"-">>
                     \o SliceTo(slug, SlugLimit),
                 date, incident_id)

generate_channel_name(service, date, incident_id) ==
    name_of_slug(slug_of(Chars(service)), date, incident_id)

unique_channel_name(base_name, incident_id) ==
    base_name \o <<"-">> \o Take(IncidentIdChars(incident_id), LongSuffix)

\* ------------------------------------- the chat client, channel management
\* outcome: "ok", "name_taken" or another error code of the platform.
CreateOutcomes == {"ok", "name_taken", "ratelimited"}

Created(w) == SelectSeq(w.slack, LAMBDA e : e.method = "create_conversation" /\ e.ok)

\* The name is held by a channel the program created earlier (an archived
\* channel keeps its name).
Taken(w, name) == \E i \in 1..Len(Created(w)) : Created(w)[i].recipient = name

NextChannel(w) == ChannelOf(Len(Created(w)) + 1)

create_conversation(w, name, outcome) ==
    [w EXCEPT !.slack = Append(@, [method |-> "create_conversation",
                                   recipient |-> name,
                                   ok |-> outcome = "ok",
                                   error |-> IF outcome = "ok" THEN "" ELSE outcome])]

archive_channel_until_archived(w, channel_id, fails) ==
    LET entry == [method |-> "archive_channel", recipient |-> channel_id,
                  ok |-> ~fails, error |-> IF fails THEN "ratelimited" ELSE ""]
    IN  [w EXCEPT !.slack = IF fails THEN @ \o <<entry, entry>> ELSE Append(@, entry)]

archive_channel(w, channel_id, fails) ==
    [w EXCEPT !.slack = Append(@, [method |-> "archive_channel",
                                   recipient |-> channel_id,
                                   ok |-> ~fails,
                                   error |-> IF fails THEN "ratelimited" ELSE ""])]

invite_users(w, channel_id, fails) ==
    [w EXCEPT !.slack = Append(@, [method |-> "invite_users",
                                   recipient |-> channel_id,
                                   ok |-> ~fails,
                                   error |-> IF fails THEN "ratelimited" ELSE ""])]

pin_message(w, channel_id, fails) ==
    [w EXCEPT !.slack = Append(@, [method |-> "pin_message",
                                   recipient |-> channel_id,
                                   ok |-> ~fails,
                                   error |-> IF fails THEN "ratelimited" ELSE ""])]

create_incident_channel_retrying_any_error(w, service, date, incident_id, create) ==
    LET base_name == Text(generate_channel_name(service, date, incident_id))
        unique_name == Text(unique_channel_name(generate_channel_name(service, date, incident_id),
                                                incident_id))
        channel_id == NextChannel(w)
        w1 == create_conversation(w, base_name, create[1])
        w2 == create_conversation(w1, unique_name, create[2])
    IN  IF create[1] = "ok"
        THEN [w |-> w1, res |-> "Ok", channel_id |-> Some(channel_id), asked |-> {"create1"}]
        ELSE [w |-> w2, res |-> IF create[2] = "ok" THEN "Ok" ELSE "SlackAPIError",
              channel_id |-> IF create[2] = "ok" THEN Some(channel_id) ELSE None,
              asked |-> {"create1", "create2"}]

\* create is the pair of outcomes the platform has for the first and the
\* second creation request.
create_incident_channel(w, service, date, incident_id, create) ==
    LET base_name == Text(generate_channel_name(service, date, incident_id))
        unique_name == Text(unique_channel_name(generate_channel_name(service, date, incident_id),
                                                incident_id))
        channel_id == NextChannel(w)
        w1 == create_conversation(w, base_name, create[1])
        w2 == create_conversation(w1, unique_name, create[2])
    IN  IF create[1] = "ok"
        THEN [w |-> w1, res |-> "Ok", channel_id |-> Some(channel_id), asked |-> {"create1"}]
        ELSE IF create[1] = "name_taken"
        THEN [w |-> w2, res |-> IF create[2] = "ok" THEN "Ok" ELSE "SlackAPIError",
              channel_id |-> IF create[2] = "ok" THEN Some(channel_id) ELSE None,
              asked |-> {"create1", "create2"}]
        ELSE [w |-> w1, res |-> "SlackAPIError", channel_id |-> None, asked |-> {"create1"}]

\* ------------------------------------------------------ the declaration
\* What the surroundings do during one declaration: the outcomes of the two
\* channel creation requests, and which of the other steps fail.
Reliable ==
    [create |-> <<"ok", "ok">>, insert_fails |-> FALSE, archive_fails |-> FALSE,
     timeline_fails |-> FALSE, audit_fails |-> FALSE, invite_fails |-> FALSE,
     pin_fails |-> FALSE, lookup_fails |-> FALSE, send_fails |-> FALSE]

Flags == DOMAIN Reliable \ {"create"}

\* A declaration that ended with an error: no incident is returned.
Declined(w, res, env, asked) ==
    Replied(w, res, None) @@ [env |-> env, asked |-> asked]

AfterAudit == {"timeline_fails", "audit_fails", "invite_fails", "lookup_fails"}

after_audit_aborting_on_failed_invite(w, cfg, incident, channel_id, down, env) ==
    LET w1 == invite_users(w, channel_id, env.invite_fails)
        w2 == post_message(w1, channel_id, down)
        posted == channel_id \notin down
        w3 == IF posted THEN pin_message(w2, channel_id, env.pin_fails) ELSE w2
        r == notify_incident_declared(NotificationService_new(w3), cfg, incident, down)
        found == ~env.lookup_fails /\ get_component_id(r.w, incident.affected_service) # None
        w4 == enqueue_statuspage_sync(r.w, incident, env.lookup_fails, env.send_fails)
    IN  IF env.invite_fails
        THEN [w |-> w1, res |-> "SlackAPIError", notify |-> "none", slack_from |-> Len(w1.slack),
              asked |-> {"timeline_fails", "audit_fails", "invite_fails"}]
        ELSE [w |-> w4, res |-> "Ok", notify |-> r.res, slack_from |-> Len(w3.slack),
              asked |-> AfterAudit \cup (IF posted THEN {"pin_fails"} ELSE {})
                                   \cup (IF found THEN {"send_fails"} ELSE {})]

\* From the invitation to Ok(()): none of these steps can end the declaration
\* with an error.
after_audit(w, cfg, incident, channel_id, down, env) ==
    LET w1 == invite_users(w, channel_id, env.invite_fails)
        w2 == post_message(w1, channel_id, down)
        posted == channel_id \notin down
        w3 == IF posted THEN pin_message(w2, channel_id, env.pin_fails) ELSE w2
        r == notify_incident_declared(NotificationService_new(w3), cfg, incident, down)
        found == ~env.lookup_fails /\ get_component_id(r.w, incident.affected_service) # None
        w4 == enqueue_statuspage_sync(r.w, incident, env.lookup_fails, env.send_fails)
    IN  [w |-> w4, res |-> "Ok", notify |-> r.res, slack_from |-> Len(w3.slack),
         asked |-> AfterAudit \cup (IF posted THEN {"pin_fails"} ELSE {})
                              \cup (IF found THEN {"send_fails"} ELSE {})]

\* The whole flow, from the generation of the incident id to Ok(()).  The
\* incident id, generated before anything is stored, is the id the row gets.
handle_modal_submission(w, cfg, severity, service, commander_id, down, env) ==
    LET incident_id == NextId(w.db)
        c == create_incident_channel(w, service, w.db.now, incident_id, env.create)
        channel_id == Unwrap(c.channel_id)
        d1 == insert_incident_with_channel(c.w.db, severity, service, commander_id, channel_id)
        incident == d1.incidents[incident_id]
        d2 == timeline_queries_log_event(d1, incident.id, "declared",
                  Message("Incident declared", "", "", 0, 0), commander_id)
        d3 == audit_log_action(d2, Some(incident.id), "incident_declared",
                  commander_id, None, None)
        f == after_audit([c.w EXCEPT !.db = d3], cfg, incident, channel_id, down, env)
        asked == c.asked \cup {"insert_fails"}
    IN  IF c.res # "Ok" THEN Declined(c.w, c.res, env, c.asked)
        ELSE IF env.insert_fails
        THEN Declined(archive_channel(c.w, channel_id, env.archive_fails), "DatabaseError",
                      env, asked \cup {"archive_fails"})
        ELSE IF env.timeline_fails
        THEN Declined([c.w EXCEPT !.db = d1], "DatabaseError", env, asked \cup {"timeline_fails"})
        ELSE IF env.audit_fails
        THEN Declined([c.w EXCEPT !.db = d2], "DatabaseError", env,
                      asked \cup {"timeline_fails", "audit_fails"})
        ELSE IF f.res # "Ok"
        THEN Declined(f.w, f.res, env, asked \cup f.asked)
        ELSE Outcome(f.w, "Ok", f.notify, None, Some(incident), None, f.slack_from)
                @@ [env |-> env, asked |-> asked \cup f.asked]

handle_status(w, cfg, channel_id, user_id, message, down) ==
    LET found == get_incident_by_channel(w.db, channel_id) IN
    IF found = None THEN Replied(w, "NotFound", None)
    ELSE IF ~validate_commander(Unwrap(found), user_id)
         THEN Replied(w, "PermissionDenied", found)
    ELSE
    LET s == IncidentService_post_status_update(w.db, Unwrap(found).id, message, user_id, 0)
        w1 == [w EXCEPT !.db = s.db]
    IN  IF s.res # "Ok" THEN Replied(w1, s.res, found)
        ELSE IF ~IsSome(Unwrap(s.ret).slack_channel_id)
             THEN Outcome(enqueue_statuspage_sync(w1, Unwrap(s.ret), FALSE, FALSE),
                          "Ok", "none", found, s.ret, None, Len(w1.slack))
        ELSE LET r == notify_status_update(NotificationService_new(w1), cfg, Unwrap(s.ret), down)
             IN  Outcome(enqueue_statuspage_sync(r.w, Unwrap(s.ret), FALSE, FALSE),
                         "Ok", r.res, found, s.ret, None, Len(w1.slack))

handle_severity(w, cfg, channel_id, user_id, new_severity, down) ==
    LET found == get_incident_by_channel(w.db, channel_id) IN
    IF found = None THEN Replied(w, "NotFound", None)
    ELSE IF ~validate_commander(Unwrap(found), user_id)
         THEN Replied(w, "PermissionDenied", found)
    ELSE IF Unwrap(found).severity = new_severity
         THEN Replied(w, "AlreadyAtSeverity", found)
    ELSE
    LET s == IncidentService_change_severity(w.db, Unwrap(found).id, new_severity, user_id, 0)
        w1 == [w EXCEPT !.db = s.db]
    IN  IF s.res # "Ok" THEN Replied(w1, s.res, found)
        ELSE IF ~IsSome(Unwrap(s.ret).slack_channel_id)
             THEN Outcome(enqueue_statuspage_sync(w1, Unwrap(s.ret), FALSE, FALSE),
                          "Ok", "none", found, s.ret, None, Len(w1.slack))
        ELSE LET r == notify_severity_change(NotificationService_new(w1), cfg,
                          Unwrap(s.ret), Unwrap(s.old), down)
             IN  Outcome(enqueue_statuspage_sync(r.w, Unwrap(s.ret), FALSE, FALSE),
                         "Ok", r.res, found, s.ret, s.old, Len(w1.slack))

handle_resolved(w, cfg, channel_id, user_id, down) ==
    LET found == get_latest_incident_by_channel(w.db, channel_id) IN
    IF found = None THEN Replied(w, "NotFound", None)
    ELSE IF ~validate_commander(Unwrap(found), user_id)
         THEN Replied(w, "PermissionDenied", found)
    ELSE IF is_terminal(Unwrap(found).status)
         THEN Replied(w, "AlreadyResolved", found)
    ELSE
    LET s == IncidentService_resolve_incident(w.db, Unwrap(found).id, user_id, 0)
        w1 == [w EXCEPT !.db = s.db]
    IN  IF s.res # "Ok" THEN Replied(w1, s.res, found)
        ELSE IF ~IsSome(Unwrap(s.ret).slack_channel_id)
             THEN Outcome(enqueue_statuspage_sync(w1, Unwrap(s.ret), FALSE, FALSE),
                          "Ok", "none", found, s.ret, None, Len(w1.slack))
        ELSE LET r == notify_resolution(NotificationService_new(w1), cfg, Unwrap(s.ret), down)
             IN  Outcome(enqueue_statuspage_sync(r.w, Unwrap(s.ret), FALSE, FALSE),
                         "Ok", r.res, found, s.ret, None, Len(w1.slack))

\* ------------------------------------------------ the commands, one by one
\* Each command runs to its end before the next one starts.  A handler builds
\* its own NotificationService, so throttle_map is the map of the instance the
\* latest command built.
MaxCommands == 2
MaxDeclared == 1

\* The channels of the stored incidents and one channel that has no incident.
Channels == {ChannelOf(i) : i \in IncidentIds}

Range(seq) == {seq[i] : i \in 1..Len(seq)}

\* The chat client reaches every recipient, or all but one of: the channel the
\* command is about, the first broadcast channel of each list, the first P1
\* recipient.  o is the run of the command with every recipient reachable: a
\* run that calls the chat client for no delivery has no outage to meet.
Outages(cfg, channel_id, o) ==
    IF o.notify = "none" THEN {{}}
    ELSE {{}} \cup {{r} : r \in {channel_id} \cup Range(SubSeq(cfg.p1_channels, 1, 1))
                                  \cup Range(SubSeq(cfg.p2_channels, 1, 1))
                                  \cup Range(SubSeq(cfg.p1_users, 1, 1))}

\* What a step records of the command it ran.
Command(op, actor, severity, down, o) ==
    [op |-> op, actor |-> actor, severity |-> severity, down |-> down,
     res |-> o.res, notify |-> o.notify, pre |-> o.pre, ret |-> o.ret,
     old |-> o.old, slack_from |-> o.slack_from,
     incident_id |-> IF IsSome(o.ret) THEN Unwrap(o.ret).id ELSE 0]
        @@ (IF "env" \in DOMAIN o THEN [env |-> o.env, asked |-> o.asked]
            ELSE [env |-> Reliable, asked |-> {}])

Ran(op, actor, severity, down, o) ==
    /\ CommitWorld(o.w)
    /\ last' = Command(op, actor, severity, down, o)
    /\ history' = IF o.res = "Ok"
                  THEN Append(history, [op |-> op,
                                        incident_id |-> Unwrap(o.ret).id,
                                        noop |-> FALSE])
                  ELSE history
    /\ commands' = commands + 1
    /\ UNCHANGED <<faults, config, statuspage_mappings, smVars, lockVars, sideVars>>

\* The outcomes the platform has for the two creation requests of the next
\* declaration when nothing is out of order: a name the program has used is
\* refused.
Dependable(w, service) ==
    [Reliable EXCEPT !.create =
        <<IF Taken(w, Text(generate_channel_name(service, w.db.now, NextId(w.db))))
          THEN "name_taken" ELSE "ok", "ok">>]

DeclareCommand ==
    /\ commands < MaxCommands
    /\ NextId(DB) <= MaxDeclared
    /\ \E severity \in Severity, service \in Services, user \in Users :
       \E down \in Outages(config, NextChannel(World),
                            handle_modal_submission(World, config, severity, service, user, {},
                                                    Dependable(World, service))) :
           /\ Ran("declare", user, Some(severity), down,
                  handle_modal_submission(World, config, severity, service, user, down,
                                          Dependable(World, service)))

StatusCommand ==
    /\ commands < MaxCommands
    /\ \E channel_id \in Channels, user \in Users, message \in Messages :
       \E down \in Outages(config, channel_id,
                            handle_status(World, config, channel_id, user, message, {})) :
           /\ Ran("status", user, None, down,
                  handle_status(World, config, channel_id, user, message, down))

SeverityCommand ==
    /\ commands < MaxCommands
    /\ \E channel_id \in Channels, user \in Users, severity \in Severity :
       \E down \in Outages(config, channel_id,
                            handle_severity(World, config, channel_id, user, severity, {})) :
           /\ Ran("severity", user, Some(severity), down,
                  handle_severity(World, config, channel_id, user, severity, down))

ResolvedCommand ==
    /\ commands < MaxCommands
    /\ \E channel_id \in Channels, user \in Users :
       \E down \in Outages(config, channel_id,
                            handle_resolved(World, config, channel_id, user, {})) :
           /\ Ran("resolved", user, None, down,
                  handle_resolved(World, config, channel_id, user, down))

InitNotify ==
    /\ incidents = <<>>
    /\ timeline = <<>>
    /\ audit_log = <<>>
    /\ notifications = <<>>
    /\ now = 0
    /\ last = NoCall
    /\ history = <<>>
    /\ faults = <<>>
    /\ slack_log = <<>>
    /\ throttle_map = <<>>
    /\ config \in Configs
    /\ commands = 0
    /\ sm_path = <<"declared">>
    /\ sm_query = None
    /\ LockInit
    /\ SideInit
    /\ jobs = <<>>
    /\ statuspage_mappings = SeededMappings

NextNotify ==
    \/ DeclareCommand
    \/ StatusCommand
    \/ SeverityCommand
    \/ ResolvedCommand

SpecNotify == InitNotify /\ [][NextNotify]_vars

\* ------------------------------------- declarations in faulty surroundings
\* Declarations alone, with every step of the flow free to fail.
MaxSubmissions == 1

\* The outcomes of the creation requests and the sets of failing steps that
\* one declaration can meet: the second request is made only after a refused
\* name, the archive call only after a failed insert, and nothing follows a
\* failed insert, timeline or audit statement.
CreateCourses ==
    {<<"ok", "ok">>, <<"ratelimited", "ok">>} \cup ({"name_taken"} \X CreateOutcomes)

FlagCourses ==
    {{"insert_fails"}, {"insert_fails", "archive_fails"}, {"timeline_fails"}, {"audit_fails"}}
        \cup SUBSET {"invite_fails", "pin_fails", "lookup_fails", "send_fails"}

Envs ==
    {[f \in Flags |-> f \in F] @@ [create |-> c] :
        c \in {x \in CreateCourses : "ok" \in {x[1], x[2]} /\ x[1] # "ratelimited"},
        F \in FlagCourses}
      \cup {[Reliable EXCEPT !.create = c] :
               c \in {x \in CreateCourses : "ok" \notin {x[1], x[2]} \/ x[1] = "ratelimited"}}

\* A name the program has used is refused.
Plausible(w, service, e) ==
    LET base_name == generate_channel_name(service, w.db.now, NextId(w.db)) IN
    /\ Taken(w, Text(base_name)) => e.create[1] = "name_taken"
    /\ (e.create[1] = "name_taken" /\ Taken(w, Text(unique_channel_name(base_name, NextId(w.db)))))
           => e.create[2] = "name_taken"

\* Each course of a declaration is taken once: a step the flow never reaches
\* does not fail.
Canonical(e, asked) ==
    /\ "create2" \notin asked => e.create[2] = "ok"
    /\ \A f \in Flags \ asked : ~e[f]

\* The users who submit the modal (the flow never branches on the submitter).
Submitters == {"U1"}

SubmitDeclaration ==
    /\ commands < MaxSubmissions
    /\ \E severity \in Severity, service \in Services, user \in Submitters, env \in Envs :
       /\ Plausible(World, service, env)
       /\ \E down \in Outages(config, NextChannel(World),
                            handle_modal_submission(World, config, severity, service, user, {}, env)) :
           /\ Canonical(env, handle_modal_submission(World, config, severity, service, user,
                                                     down, env).asked)
           /\ Ran("declare", user, Some(severity), down,
                  handle_modal_submission(World, config, severity, service, user, down, env))

InitDeclare ==
    /\ incidents = <<>>
    /\ timeline = <<>>
    /\ audit_log = <<>>
    /\ notifications = <<>>
    /\ now = 0
    /\ last = NoCall
    /\ history = <<>>
    /\ faults = <<>>
    /\ slack_log = <<>>
    /\ throttle_map = <<>>
    /\ config = TestConfig
    /\ commands = 0
    /\ sm_path = <<"declared">>
    /\ sm_query = None
    /\ LockInit
    /\ SideInit
    /\ jobs = <<>>
    /\ statuspage_mappings \in {{}, SeededMappings}

NextDeclare == SubmitDeclaration

SpecDeclare == InitDeclare /\ [][NextDeclare]_vars

\* ------------------------------------------------------- the job worker
StatuspageStatus == {"major_outage", "partial_outage", "degraded_performance", "operational"}

map_status_by_severity_alone(status, severity) ==
    CASE severity = "P1" -> "major_outage"
      [] severity = "P2" -> "partial_outage"
      [] OTHER -> "degraded_performance"

map_status(status, severity) ==
    CASE status \in {"declared", "investigating"} ->
             (CASE severity = "P1" -> "major_outage"
                [] severity = "P2" -> "partial_outage"
                [] severity = "P3" -> "degraded_performance"
                [] severity = "P4" -> "degraded_performance")
      [] status \in {"identified", "monitoring"} ->
             (CASE severity = "P1" -> "partial_outage"
                [] severity = "P2" -> "degraded_performance"
                [] severity \in {"P3", "P4"} -> "degraded_performance")
      [] status = "resolved" -> "operational"

\* What becomes of one request to the status page: it is answered with
\* success, answered with an error status, never answered (the 30-second
\* timeout of the HTTP client ends it), or the task crashes under way.
Responses == {"success", "http_error", "timeout", "panic"}

\* The component update as the status page sees it (a request that timed out
\* is taken not to have arrived).
Patch(log, component_id, status, severity, response) ==
    IF response \in {"success", "http_error"}
    THEN Append(log, [component_id |-> component_id,
                      status |-> map_status(status, severity),
                      ok |-> response = "success"])
    ELSE log

update_component_status(response) ==
    CASE response = "success" -> "Ok"
      [] response = "http_error" -> "ExternalAPIError"
      [] response = "timeout" -> "HttpError"

execute_returning_the_failure(response) == update_component_status(response)

\* statuspage_sync::execute: both arms of the match return Ok(()).
execute(response) ==
    IF update_component_status(response) = "Ok" THEN "Ok" ELSE "Ok"

\* process_job_static: `execute(..).await.map_err(|e| e.to_string())?` with a
\* client, Ok(()) without one.
process_job_static(client, response) ==
    IF client = None THEN "Ok"
    ELSE IF execute(response) = "Ok" THEN "Ok" ELSE "Err"

worker_after_job_run_in_the_loop(w, result) ==
    IF result = "panicked" THEN "crashed" ELSE w

\* The job runs in a task of its own: whatever becomes of it, the loop of
\* JobWorker::start is where it was.
worker_after_job(w, result) == w

\* The severities of the commands served while the worker is watched (the
\* worker never branches on the severity of a job).
ServedSeverities == {"P1", "P3"}

\* A handler runs a command with every delivery working and sends its job.
Serve ==
    /\ senders
    /\ commands < MaxCommands
    /\ \/ /\ NextId(DB) <= MaxDeclared
          /\ \E severity \in ServedSeverities, service \in Services, user \in Submitters :
                Ran("declare", user, Some(severity), {},
                    handle_modal_submission(World, config, severity, service, user, {},
                                            Dependable(World, service)))
       \/ \E channel_id \in Channels, user \in Submitters, message \in Messages :
             /\ get_incident_by_channel(DB, channel_id) # None
             /\ Ran("status", user, None, {},
                    handle_status(World, config, channel_id, user, message, {}))
       \/ \E channel_id \in Channels, user \in Submitters, severity \in ServedSeverities :
             /\ get_incident_by_channel(DB, channel_id) # None
             /\ Ran("severity", user, Some(severity), {},
                    handle_severity(World, config, channel_id, user, severity, {}))
       \/ \E channel_id \in Channels, user \in Submitters :
             /\ get_incident_by_channel(DB, channel_id) # None
             /\ Ran("resolved", user, None, {},
                    handle_resolved(World, config, channel_id, user, {}))

\* The server goes down: AppState and with it every sender is dropped.
Shutdown ==
    /\ senders
    /\ senders' = FALSE
    /\ UNCHANGED <<dbVars, last, history, faults, notifyVars, smVars, lockVars, extraVars,
                   received, tasks, worker, statuspage_client, statuspage_log>>

\* `while let Some(job) = self.receiver.recv().await { tokio::spawn(..) }`
Recv ==
    /\ worker = "running"
    /\ received < Len(jobs)
    /\ received' = received + 1
    /\ tasks' = Append(tasks, [job |-> jobs[received + 1], state |-> "spawned",
                               response |-> "none", result |-> "none"])
    /\ UNCHANGED <<dbVars, last, history, faults, notifyVars, smVars, lockVars, extraVars,
                   worker, senders, statuspage_client, statuspage_log>>

\* recv() returns None: the queue is empty and no sender is left.
Stop ==
    /\ worker = "running"
    /\ received = Len(jobs)
    /\ ~senders
    /\ worker' = "stopped"
    /\ UNCHANGED <<dbVars, last, history, faults, notifyVars, smVars, lockVars, extraVars,
                   received, tasks, senders, statuspage_client, statuspage_log>>

\* The task of job t runs to its end.
RunJob(t) ==
    /\ tasks[t].state = "spawned"
    /\ \E response \in IF statuspage_client = None THEN {"none", "panic"} ELSE Responses :
          LET job == tasks[t].job
              result == IF response = "panic" THEN "panicked"
                        ELSE process_job_static(statuspage_client, response)
          IN  /\ tasks' = [tasks EXCEPT ![t] = [@ EXCEPT !.state = "done",
                                                        !.response = response,
                                                        !.result = result]]
              /\ statuspage_log' = IF statuspage_client = None THEN statuspage_log
                                   ELSE Patch(statuspage_log, job.component_id, job.status,
                                              job.severity, response)
              /\ worker' = worker_after_job(worker, result)
    /\ UNCHANGED <<dbVars, last, history, faults, notifyVars, smVars, lockVars, extraVars,
                   received, senders, statuspage_client>>

InitWorker ==
    /\ incidents = <<>>
    /\ timeline = <<>>
    /\ audit_log = <<>>
    /\ notifications = <<>>
    /\ now = 0
    /\ last = NoCall
    /\ history = <<>>
    /\ faults = <<>>
    /\ slack_log = <<>>
    /\ throttle_map = <<>>
    /\ config = TestConfig
    /\ commands = 0
    /\ sm_path = <<"declared">>
    /\ sm_query = None
    /\ LockInit
    /\ ExtraInit
    /\ jobs = <<>>
    /\ statuspage_mappings = SeededMappings
    /\ received = 0
    /\ tasks = <<>>
    /\ worker = "running"
    /\ senders = TRUE
    /\ statuspage_client \in {None, Some("client")}
    /\ statuspage_log = <<>>

NextWorker ==
    \/ Serve
    \/ Shutdown
    \/ Recv
    \/ Stop
    \/ \E t \in 1..Len(tasks) : RunJob(t)

SpecWorker == InitWorker /\ [][NextWorker]_vars

\* update_component_status called for any status and severity, the status
\* page answering with success or with an error.
MaxSyncs == 2

UpdateComponentStatus ==
    /\ Len(tasks) < MaxSyncs
    /\ \E status \in IncidentStatus, severity \in Severity, response \in {"success", "http_error"} :
          /\ tasks' = Append(tasks,
                 [job |-> [incident_id |-> 1, component_id |-> "comp_api",
                           status |-> status, severity |-> severity],
                  state |-> "done", response |-> response,
                  result |-> process_job_static(statuspage_client, response)])
          /\ statuspage_log' = Patch(statuspage_log, "comp_api", status, severity, response)
    /\ UNCHANGED <<dbVars, last, history, faults, notifyVars, smVars, lockVars, extraVars,
                   received, worker, senders, statuspage_client>>

InitMapping ==
    /\ incidents = <<>>
    /\ timeline = <<>>
    /\ audit_log = <<>>
    /\ notifications = <<>>
    /\ now = 0
    /\ last = NoCall
    /\ history = <<>>
    /\ faults = <<>>
    /\ slack_log = <<>>
    /\ throttle_map = <<>>
    /\ config = TestConfig
    /\ commands = 0
    /\ sm_path = <<"declared">>
    /\ sm_query = None
    /\ LockInit
    /\ ExtraInit
    /\ jobs = <<>>
    /\ statuspage_mappings = SeededMappings
    /\ received = 0
    /\ tasks = <<>>
    /\ worker = "running"
    /\ senders = TRUE
    /\ statuspage_client = Some("client")
    /\ statuspage_log = <<>>

NextMapping == UpdateComponentStatus

SpecMapping == InitMapping /\ [][NextMapping]_vars

\* The runtime keeps running the worker's loop and every spawned task.
SpecWorkerFair ==
    /\ SpecWorker
    /\ WF_vars(Recv)
    /\ WF_vars(Stop)
    /\ \A t \in 1..MaxCommands : WF_vars(t \in 1..Len(tasks) /\ RunJob(t))

\* ------------------------------------- should_send_dm, calls running together
\* Calls on one NotificationService from tasks that run at the same time.  A
\* call waits for the lock of the throttle map, then sweeps, checks and sets
\* with the lock held; the guard is dropped when the call returns.
ThrottleKeys == Users \X (1..MaxDeclared)

\* What the calls leave alone.
restVars == <<incidents, timeline, audit_log, notifications, last, history, faults,
              slack_log, config, commands, jobs, statuspage_mappings, smVars, sideVars>>

mutex_would_admit_anyone(m) == TRUE

\* Mutex::lock() completes only when no other task holds the guard.
MutexFree(m) == m = None

Returned(c, ret) ==
    /\ checks' = Append(checks, [caller |-> c, key |-> callers[c].key,
                                 at |-> callers[c].at, waited |-> callers[c].waited,
                                 ret |-> ret])
    /\ callers' = [callers EXCEPT ![c] = Idle]
    /\ mutex' = IF mutex = Some(c) THEN None ELSE mutex

CallShouldSendDm(c) ==
    \E key \in ThrottleKeys :
        /\ callers[c].pc = "idle"
        /\ Len(checks) + Cardinality({d \in DOMAIN callers : callers[d].pc # "idle"}) < MaxChecks
        /\ callers' = [callers EXCEPT ![c] =
                           [pc |-> "lock", key |-> key, waited |-> mutex # None]]
        /\ UNCHANGED <<mutex, checks, throttle_map, now, restVars>>

AcquireLock(c) ==
    /\ callers[c].pc = "lock"
    /\ MutexFree(mutex)
    /\ mutex' = Some(c)
    /\ callers' = [callers EXCEPT ![c].pc = "sweep"]
    /\ UNCHANGED <<checks, throttle_map, now, restVars>>

Sweep(c) ==
    /\ callers[c].pc = "sweep"
    /\ throttle_map' = Retained(throttle_map, now)
    /\ callers' = [callers EXCEPT ![c] =
                       [pc |-> "check", key |-> @.key, waited |-> @.waited, at |-> now]]
    /\ UNCHANGED <<mutex, checks, now, restVars>>

CheckCooldown(c) ==
    /\ callers[c].pc = "check"
    /\ IF InCooldown(throttle_map, callers[c].key, callers[c].at)
       THEN Returned(c, FALSE)
       ELSE /\ callers' = [callers EXCEPT ![c].pc = "insert"]
            /\ UNCHANGED <<mutex, checks>>
    /\ UNCHANGED <<throttle_map, now, restVars>>

InsertAndReturn(c) ==
    /\ callers[c].pc = "insert"
    /\ throttle_map' = Inserted(throttle_map, callers[c].key, callers[c].at)
    /\ Returned(c, TRUE)
    /\ UNCHANGED <<now, restVars>>

Tick ==
    /\ now < MaxTicks * TickSeconds
    /\ now' = now + TickSeconds
    /\ UNCHANGED <<lockVars, throttle_map, restVars>>

NextThrottle ==
    \/ \E c \in 1..MaxCallers : CallShouldSendDm(c)
    \/ \E c \in 1..MaxCallers : AcquireLock(c)
    \/ \E c \in 1..MaxCallers : Sweep(c)
    \/ \E c \in 1..MaxCallers : CheckCooldown(c)
    \/ \E c \in 1..MaxCallers : InsertAndReturn(c)
    \/ Tick

SpecThrottle == Init /\ [][NextThrottle]_vars

\* ---------------------------------------------------------------- claims
StatusRank(s) ==
    CASE s = "declared" -> 1
      [] s = "investigating" -> 2
      [] s = "identified" -> 3
      [] s = "monitoring" -> 4
      [] s = "resolved" -> 5

\* C1: can_transition_to(from, to) is true exactly when `to` is strictly later
\* than `from` in Declared < Investigating < Identified < Monitoring <
\* Resolved; so Resolved has no successor, no status reaches itself, and the
\* statuses gone through by allowed transitions only move forward.
C1_TransitionIffLater ==
    /\ \A q \in sm_query :
           /\ q.result <=> StatusRank(q.from) < StatusRank(q.to)
           /\ q.terminal => ~q.result
           /\ q.from = q.to => ~q.result
    /\ \A i \in 1..Len(sm_path) - 1 : StatusRank(sm_path[i]) < StatusRank(sm_path[i + 1])

C1_Witness ==
    /\ sm_path = <<"declared", "identified", "monitoring">>
    /\ sm_query = Some([from |-> "monitoring", to |-> "resolved", result |-> TRUE,
                        terminal |-> FALSE])

\* C2: resolved_at and duration_minutes are both set when the status is
\* Resolved and both unset when it is not.
C2_ResolvedFieldsIffResolved ==
    \A id \in DOMAIN incidents :
        IF incidents[id].status = "resolved"
        THEN IsSome(incidents[id].resolved_at) /\ IsSome(incidents[id].duration_minutes)
        ELSE incidents[id].resolved_at = None /\ incidents[id].duration_minutes = None

C2_Witness ==
    /\ DOMAIN incidents = {1, 2}
    /\ incidents[1].status = "resolved"
    /\ IsSome(incidents[1].resolved_at)
    /\ incidents[2].status = "declared"
    /\ last.op = "change_severity" /\ last.res = "Ok" /\ last.incident_id = 1

MutatingOps == {"post_status_update", "change_severity", "resolve_incident"}

\* C3: a call of postStatusUpdate, changeSeverity or resolve by anyone but the
\* incident's commander returns PermissionDenied, whatever the status (also
\* on a resolved incident).
C3_NonCommanderDenied ==
    (/\ last.op \in MutatingOps
     /\ IsSome(last.pre)
     /\ last.actor # Unwrap(last.pre).commander_id)
    => last.res = "PermissionDenied"

C3_Witness ==
    /\ last.op = "post_status_update"
    /\ IsSome(last.pre)
    /\ Unwrap(last.pre).status = "resolved"
    /\ last.actor # Unwrap(last.pre).commander_id
    /\ last.res = "PermissionDenied"

\* The rows of a table that belong to an incident.
AuditRowsOf(log, id) == {i \in 1..Len(log) : log[i].incident_id = Some(id)}
TimelineRowsOf(tl, id) == {i \in 1..Len(tl) : tl[i].incident_id = id}

\* The call appended exactly one timeline row of the kind and one audit row.
AppendedOne(id, kind, action) ==
    /\ Len(timeline') = Len(timeline) + 1
    /\ SubSeq(timeline', 1, Len(timeline)) = timeline
    /\ timeline'[Len(timeline')].incident_id = id
    /\ timeline'[Len(timeline')].event_type = kind
    /\ Len(audit_log') = Len(audit_log) + 1
    /\ SubSeq(audit_log', 1, Len(audit_log)) = audit_log
    /\ audit_log'[Len(audit_log')].incident_id = Some(id)
    /\ audit_log'[Len(audit_log')].action = action

SameResolution(a, b) ==
    /\ a.status = b.status
    /\ a.resolved_at = b.resolved_at
    /\ a.duration_minutes = b.duration_minutes

\* C4: postStatusUpdate by the commander returns ValidationError on a resolved
\* incident and appends nothing; on a non-terminal incident it appends one
\* status-update event and one audit record and leaves status, severity,
\* resolved_at and duration as they were.
C4_StatusUpdateStep ==
    (/\ last'.op = "post_status_update"
     /\ IsSome(last'.pre)
     /\ last'.actor = Unwrap(last'.pre).commander_id)
    => IF is_terminal(Unwrap(last'.pre).status)
       THEN /\ last'.res = "ValidationError"
            /\ UNCHANGED <<incidents, timeline, audit_log>>
       ELSE /\ last'.res = "Ok"
            /\ AppendedOne(last'.incident_id, "status_update", "post_status_update")
            /\ incidents' = incidents

C4_StatusUpdate == [][C4_StatusUpdateStep]_vars

C4_Witness ==
    /\ last.op = "post_status_update"
    /\ IsSome(last.pre)
    /\ last.actor = Unwrap(last.pre).commander_id
    /\ Unwrap(last.pre).status = "resolved"
    /\ last.res = "ValidationError"

\* C5: resolve by the commander on a resolved incident succeeds, returns the
\* incident as stored (same status, resolved_at, duration_minutes) and appends
\* no timeline event and no audit record; what the first resolve stored in
\* resolved_at and duration_minutes stays.
C5_ResolveAgainStep ==
    /\ (/\ last'.op = "resolve_incident"
        /\ IsSome(last'.pre)
        /\ last'.actor = Unwrap(last'.pre).commander_id
        /\ is_terminal(Unwrap(last'.pre).status))
       => /\ last'.res = "Ok"
          /\ IsSome(last'.ret)
          /\ SameResolution(Unwrap(last'.ret), incidents[last'.incident_id])
          /\ UNCHANGED <<incidents, timeline, audit_log>>
    /\ \A id \in DOMAIN incidents :
           is_terminal(incidents[id].status) => SameResolution(incidents'[id], incidents[id])

C5_ResolveIdempotent == [][C5_ResolveAgainStep]_vars

C5_Witness ==
    /\ last.op = "resolve_incident"
    /\ last.res = "Ok"
    /\ IsSome(last.pre)
    /\ Unwrap(last.pre).status = "resolved"
    /\ Len(history) >= 3
    /\ history[Len(history)].noop
    /\ history[Len(history) - 1].op = "change_severity"

\* C6: changeSeverity by the commander succeeds in every status, Resolved
\* included: the new severity is stored, one severity-change event and one
\* audit record are appended, the severity held before is returned as
\* oldSeverity, and status, resolved_at and duration stay.
C6_ChangeSeverityStep ==
    (/\ last'.op = "change_severity"
     /\ IsSome(last'.pre)
     /\ last'.actor = Unwrap(last'.pre).commander_id)
    => /\ last'.res = "Ok"
       /\ incidents' = [incidents EXCEPT ![last'.incident_id].severity = last'.severity]
       /\ Unwrap(last'.ret) = incidents'[last'.incident_id]
       /\ last'.old = Some(Unwrap(last'.pre).severity)
       /\ AppendedOne(last'.incident_id, "severity_change", "change_severity")
       /\ SameResolution(incidents'[last'.incident_id], incidents[last'.incident_id])

C6_ChangeSeverity == [][C6_ChangeSeverityStep]_vars

C6_Witness ==
    /\ last.op = "change_severity"
    /\ last.res = "Ok"
    /\ Unwrap(last.pre).status = "resolved"
    /\ Unwrap(last.pre).severity = "P3"
    /\ incidents[last.incident_id].severity = "P1"
    /\ incidents[last.incident_id].status = "resolved"


EventKindOf(op) ==
    CASE op = "create_incident" -> "declared"
      [] op = "post_status_update" -> "status_update"
      [] op = "change_severity" -> "severity_change"
      [] op = "resolve_incident" -> "resolved"

EventTypes(events) == [i \in 1..Len(events) |-> events[i].event_type]

\* The successful calls on an incident, in invocation order.
CallsOn(id) == LET On(h) == h.incident_id = id IN SelectSeq(history, On)

\* Those of them that did not find the incident already resolved.
EffectiveCallsOn(id) ==
    LET Effective(h) == h.incident_id = id /\ ~h.noop IN SelectSeq(history, Effective)

KindsOf(calls) == [i \in 1..Len(calls) |-> EventKindOf(calls[i].op)]

C8_DeclareLeavesNewIncident ==
    last.op = "create_incident"
    => /\ last.res = "Ok"
       /\ last.incident_id \in DOMAIN incidents
       /\ last.ret = Some(incidents[last.incident_id])
       /\ \A id \in DOMAIN incidents : id # last.incident_id => id < last.incident_id
       /\ LET incident == incidents[last.incident_id] IN
              /\ incident.status = "declared"
              /\ incident.severity = last.severity
              /\ incident.affected_service = last.service
              /\ incident.commander_id = last.actor
              /\ incident.resolved_at = None
              /\ incident.duration_minutes = None
       /\ \A events \in get_timeline(DB, last.incident_id) :
              Len(events) = 1 /\ events[1].event_type = "declared"
       /\ Cardinality(AuditRowsOf(audit_log, last.incident_id)) = 1

C8_Witness ==
    /\ last.op = "create_incident"
    /\ last.res = "Ok"
    /\ last.incident_id = 2
    /\ last.actor # incidents[1].commander_id
    /\ Cardinality(TimelineRowsOf(timeline, 1)) = 3
    /\ Cardinality(TimelineRowsOf(timeline, 2)) = 1


\* The calls the latest command's notification call made to the chat client.
RouterCalls == SubSeq(slack_log, last.slack_from + 1, Len(slack_log))

Attempted == {<<RouterCalls[i].method, RouterCalls[i].recipient>> : i \in 1..Len(RouterCalls)}

AllDelivered == \A i \in 1..Len(RouterCalls) : RouterCalls[i].ok

Notified == last.op \in {"declare", "status", "severity", "resolved"} /\ last.notify # "none"

Posts(channels) == {<<"post_message", c>> : c \in channels}

DMs(users) == {<<"send_dm", u>> : u \in users}

\* The recipient set the routing table gives an incident under a configuration.
RoutingTable(cfg, incident) ==
    CASE incident.severity = "P1" ->
            Posts(incident.slack_channel_id) \cup Posts(Range(cfg.p1_channels))
                \cup DMs(Range(cfg.p1_users))
      [] incident.severity = "P2" ->
            Posts(incident.slack_channel_id) \cup Posts(Range(cfg.p2_channels))
      [] OTHER -> Posts(incident.slack_channel_id)

\* C9: when every delivery succeeds, the notification of a declaration or of a
\* resolution attempts exactly the recipients of the routing table for the
\* incident's severity (P1: own channel, every P1 broadcast channel, a DM to
\* every P1 recipient; P2: own channel and every P2 broadcast channel; P3 and
\* P4: own channel only), and no notification of an incident whose severity is
\* not P1 attempts a DM.
C9_RoutingBySeverity ==
    /\ (Notified /\ last.op \in {"declare", "resolved"} /\ AllDelivered)
            => Attempted = RoutingTable(config, Unwrap(last.ret))
    /\ (Notified /\ Unwrap(last.ret).severity # "P1")
            => \A i \in 1..Len(RouterCalls) : RouterCalls[i].method # "send_dm"

\* A P1 incident is resolved under the configuration that names a recipient
\* twice: the repeated entry is throttled and every delivery succeeds.
C9_Witness ==
    /\ Notified
    /\ last.op = "resolved"
    /\ Unwrap(last.ret).severity = "P1"
    /\ AllDelivered
    /\ Cardinality(Attempted) = 5
    /\ \E i \in 1..Len(notifications) : notifications[i].status = "throttled"

\* C10: a severity change from P3 or P4 to P1 or P2 is notified to recipients
\* of the routing table of the new severity only, and to all of them when
\* every delivery succeeds.
C10_EscalationRoutedInFull ==
    (/\ Notified
     /\ last.op = "severity"
     /\ last.old \subseteq {"P3", "P4"}
     /\ last.severity \subseteq {"P1", "P2"})
        => /\ Unwrap(last.ret).severity = Unwrap(last.severity)
           /\ Attempted \subseteq RoutingTable(config, Unwrap(last.ret))
           /\ AllDelivered => Attempted = RoutingTable(config, Unwrap(last.ret))

\* P3 is raised to P1 and the broadcast channels and the P1 recipients are
\* reached; P4 is raised to P2 and the P2 broadcast channel is reached.
C10_Witness ==
    /\ Notified
    /\ last.op = "severity"
    /\ AllDelivered
    /\ \/ /\ last.old = Some("P3")
          /\ last.severity = Some("P1")
          /\ Attempted \cap Posts(Range(config.p1_channels)) # {}
          /\ Attempted \cap DMs(Range(config.p1_users)) # {}
       \/ /\ last.old = Some("P4")
          /\ last.severity = Some("P2")
          /\ Attempted \cap Posts(Range(config.p2_channels)) # {}

\* A severity change out of P3 or P4 into P1 or P2.
EscalationIntoBand(old, new) == old \subseteq {"P3", "P4"} /\ new \subseteq {"P1", "P2"}

\* C11: a severity change that is not an escalation from P3/P4 into P1/P2
\* (a downgrade, or an escalation from P2 to P1) is notified to the incident's
\* own channel only: no broadcast channel post and no DM is attempted.
C11_OtherChangesOwnChannelOnly ==
    (/\ Notified
     /\ last.op = "severity"
     /\ ~EscalationIntoBand(last.old, last.severity))
        => Attempted \subseteq Posts(Unwrap(last.ret).slack_channel_id)

\* P1 is lowered to P2 and the P2 broadcast channel is posted to; P2 is raised
\* to P1 and a P1 recipient gets a DM.
C11_Witness ==
    /\ Notified
    /\ last.op = "severity"
    /\ \/ /\ last.old = Some("P1")
          /\ last.severity = Some("P2")
          /\ Attempted \cap Posts(Range(config.p2_channels)) # {}
       \/ /\ last.old = Some("P2")
          /\ last.severity = Some("P1")
          /\ Attempted \cap DMs(Range(config.p1_users)) # {}

\* The DM records of a (recipient, incident) pair, as positions in the table.
DmRows(user_id, incident_id) ==
    {i \in 1..Len(notifications) :
        /\ notifications[i].notification_type = "slack_dm"
        /\ notifications[i].recipient = user_id
        /\ notifications[i].incident_id = incident_id}

\* Two DM attempts of one pair with no attempt of that pair between them.
ConsecutiveDmRows ==
    {p \in (1..Len(notifications)) \X (1..Len(notifications)) :
        /\ p[1] < p[2]
        /\ notifications[p[1]].notification_type = "slack_dm"
        /\ p[2] \in DmRows(notifications[p[1]].recipient, notifications[p[1]].incident_id)
        /\ \A k \in DmRows(notifications[p[1]].recipient, notifications[p[1]].incident_id) :
               ~(p[1] < k /\ k < p[2])}

\* C12: of two DM attempts to the same (recipient, incident) pair, whichever
\* commands raised them, the second is throttled (logged throttled, not
\* delivered) when it comes less than 5 minutes after the first was sent, and
\* is delivered when it comes 5 minutes or more after it.
C12_ThrottleAcrossCommands ==
    \A p \in ConsecutiveDmRows :
        notifications[p[1]].status = "sent"
        => IF notifications[p[2]].sent_at - notifications[p[1]].sent_at < ThrottleSeconds
           THEN notifications[p[2]].status = "throttled"
           ELSE notifications[p[2]].status # "throttled"

\* A P1 recipient was sent a DM for the declaration and, less than 5 minutes
\* later, a second DM for the resolution of the same incident.
C12_Witness ==
    /\ last.op = "resolved"
    /\ \E p \in ConsecutiveDmRows :
          /\ notifications[p[1]].status = "sent"
          /\ notifications[p[2]].status = "sent"
          /\ notifications[p[2]].sent_at - notifications[p[1]].sent_at < ThrottleSeconds

\* The calls that stand between taking the lock and returning.
InCriticalSection == {c \in DOMAIN callers : callers[c].pc \in {"sweep", "check", "insert"}}

\* C13: however concurrent should_send_dm calls on one throttle map interleave,
\* at most one call is between taking the lock and returning (no sweep runs
\* within another call's check-and-set), and of the calls for one (recipient,
\* incident) pair that return true no two lie within one cooldown window.
C13_CheckAndSetAtomic ==
    /\ Cardinality(InCriticalSection) <= 1
    /\ \A i, j \in 1..Len(checks) :
           (/\ i < j
            /\ checks[i].key = checks[j].key
            /\ checks[i].ret
            /\ checks[j].ret)
               => checks[j].at - checks[i].at >= ThrottleSeconds

\* Two tasks asked for the same pair at the same instant, the second while
\* the first held the lock: the first was let through, the second throttled.
C13_Witness ==
    \E i, j \in 1..Len(checks) :
        /\ i < j
        /\ checks[i].caller # checks[j].caller
        /\ checks[i].key = checks[j].key
        /\ checks[i].at = checks[j].at
        /\ checks[j].waited
        /\ checks[i].ret
        /\ ~checks[j].ret

\* The records a step adds to the notification table.
NewRows == SubSeq(notifications', Len(notifications) + 1, Len(notifications'))

IsDm(row) == row.notification_type = "slack_dm"

IsAttempt(row) == row.status # "throttled"

Recipients(rows) == [i \in 1..Len(rows) |-> rows[i].recipient]

\* C14: in every notification call, a DM that fails is logged failed and the
\* routing goes on through all P1 recipients and returns success; a channel
\* post that fails is logged failed, ends the routing and is returned as the
\* error of the notification call.
C14_FailureHandlingStep ==
    Notified' =>
        LET calls == RouterCalls'
            rows == SelectSeq(NewRows, IsAttempt)
            dms == SelectSeq(NewRows, IsDm)
        IN  /\ Len(rows) = Len(calls)
            /\ \A i \in 1..Len(calls) :
                   ~calls[i].ok =>
                       /\ rows[i].status = "failed"
                       /\ rows[i].recipient = calls[i].recipient
                       /\ calls[i].method = "post_message" =>
                              /\ i = Len(calls)
                              /\ last'.notify = "SlackAPIError"
            /\ (\A i \in 1..Len(calls) : calls[i].method = "post_message" => calls[i].ok)
                   => last'.notify = "Ok"
            /\ dms # <<>> => /\ Recipients(dms) = config.p1_users
                             /\ last'.notify = "Ok"

C14_FailureHandling == [][C14_FailureHandlingStep]_vars

\* A DM failed during one command and a later P1 recipient was still sent
\* the DM; a channel post failed during the next command, which got the error.
C14_Witness ==
    /\ Notified
    /\ last.notify = "SlackAPIError"
    /\ ~RouterCalls[Len(RouterCalls)].ok
    /\ \E i, j \in 1..Len(notifications) :
          /\ i < j
          /\ IsDm(notifications[i])
          /\ notifications[i].status = "failed"
          /\ IsDm(notifications[j])
          /\ notifications[j].status = "sent"
          /\ notifications[j].sent_at < notifications[Len(notifications)].sent_at
    /\ notifications[Len(notifications)].status = "failed"
    /\ notifications[Len(notifications)].notification_type = "slack_channel"

MethodOf(row) == IF IsDm(row) THEN "send_dm" ELSE "post_message"

\* C15: a step's new records are, in order, one per call made to the chat
\* client by the notification call (same recipient, channel or DM as the call,
\* sent when the call succeeded and failed when it did not), plus one throttled
\* DM record, with no call, per P1 recipient entry that repeats an earlier
\* entry of the list; a step that makes no notification call adds no record.
C15_OneRecordPerAttemptStep ==
    LET calls == RouterCalls'
        rows == SelectSeq(NewRows, IsAttempt)
        dms == SelectSeq(NewRows, IsDm)
    IN  IF ~Notified' THEN NewRows = <<>>
        ELSE /\ Len(rows) = Len(calls)
             /\ \A i \in 1..Len(calls) :
                    /\ rows[i].recipient = calls[i].recipient
                    /\ MethodOf(rows[i]) = calls[i].method
                    /\ rows[i].status = IF calls[i].ok THEN "sent" ELSE "failed"
                    /\ rows[i].incident_id = last'.incident_id
             /\ \A i \in 1..Len(dms) :
                    dms[i].status = "throttled"
                       <=> \E k \in 1..(i - 1) : dms[k].recipient = dms[i].recipient
             /\ \A i \in 1..Len(NewRows) : NewRows[i].status = "throttled" => IsDm(NewRows[i])

C15_OneRecordPerAttempt == [][C15_OneRecordPerAttemptStep]_vars

\* A P1 notification under the configuration that names a recipient twice:
\* one DM failed, one was sent, the repeated entry was throttled.
C15_Witness ==
    /\ Notified
    /\ last.notify = "Ok"
    /\ \E i \in 1..Len(RouterCalls) : RouterCalls[i].method = "send_dm" /\ ~RouterCalls[i].ok
    /\ \E i \in 1..Len(RouterCalls) : RouterCalls[i].method = "send_dm" /\ RouterCalls[i].ok
    /\ \E i \in 1..Len(notifications) : notifications[i].status = "throttled"
    /\ \E i \in 1..Len(notifications) : notifications[i].status = "failed"

\* ----------------------------------------------------- the declaration
\* The calls a step makes to the chat client.
NewCalls == SubSeq(slack_log', Len(slack_log) + 1, Len(slack_log'))

CallsOf(calls, method) == SelectSeq(calls, LAMBDA e : e.method = method)

\* The calls of a step up to the start of the notification call.
BeforeNotification == SubSeq(slack_log', Len(slack_log) + 1, last'.slack_from)

\* The step declares an incident: it stores the row of a new incident.
Persisted ==
    /\ DOMAIN incidents' = DOMAIN incidents \cup {NextId(DB)}
    /\ NextId(DB) \notin DOMAIN incidents
    /\ \A i \in DOMAIN incidents : incidents'[i] = incidents[i]

NothingStored ==
    /\ incidents' = incidents
    /\ timeline' = timeline
    /\ audit_log' = audit_log
    /\ notifications' = notifications
    /\ jobs' = jobs

\* C16: a declaration asks for a channel once under the derived name and a
\* second time only after the answer name_taken, then under the derived name
\* followed by "-" and the first 8 characters of the incident id; when the
\* last request made fails, for whatever reason, the declaration returns the
\* error, asks for nothing more and stores no incident.
C16_ChannelCreationStep ==
    LET creates == CallsOf(NewCalls, "create_conversation")
        n == Len(creates)
    IN  /\ n \in {1, 2}
        /\ \A i \in 1..n : NewCalls[i] = creates[i]
        /\ \E service \in Services :
               creates[1].recipient = "inc-2024010" \o ToString(1 + now \div SecondsPerDay)
                                          \o "-" \o service
        /\ n = 2 <=> creates[1].error = "name_taken"
        /\ n = 2 => creates[2].recipient
                        = creates[1].recipient \o "-0000000" \o ToString(NextId(DB))
        /\ ~creates[n].ok => /\ last'.res = "SlackAPIError"
                             /\ NewCalls = creates
                             /\ NothingStored
        /\ creates[n].ok => "insert_fails" \in last'.asked

C16_ChannelCreation == [][C16_ChannelCreationStep]_vars

\* The derived name was taken and the name with the suffix was taken too: two
\* requests, an error, no incident.
C16_Witness ==
    /\ last.op = "declare"
    /\ last.res = "SlackAPIError"
    /\ Len(slack_log) = 2
    /\ slack_log[1].error = "name_taken"
    /\ slack_log[2].error = "name_taken"
    /\ slack_log[2].recipient = "inc-20240101-api-00000001"
    /\ incidents = <<>>

Referenced(channel_id) ==
    \E i \in DOMAIN incidents : incidents[i].slack_channel_id = Some(channel_id)

Archived(channel_id) ==
    \E i \in 1..Len(slack_log) :
        /\ slack_log[i].method = "archive_channel"
        /\ slack_log[i].recipient = channel_id
        /\ slack_log[i].ok

\* C17: between declarations, every channel a declaration created is the
\* channel of a stored incident or has been archived.
C17_NoOrphanChannel ==
    \A k \in 1..Len(Created(World)) :
        Referenced(ChannelOf(k)) \/ Archived(ChannelOf(k))

\* The channel was created, the insert failed and the channel was archived.
C17_Witness ==
    /\ last.op = "declare"
    /\ last.env.insert_fails
    /\ Len(Created(World)) = 1
    /\ ~Referenced("C_inc1")
    /\ Archived("C_inc1")

\* C18: a declaration whose channel was created and whose insert fails
\* returns the storage error whatever the archive call answers, calls archive
\* once, on the channel it created, makes no other call to the chat client
\* after the creation, and stores no row and sends no job.
C18_FailedInsertStep ==
    (last'.op = "declare" /\ last'.env.insert_fails /\ "insert_fails" \in last'.asked) =>
        LET archives == CallsOf(NewCalls, "archive_channel")
            creates == CallsOf(NewCalls, "create_conversation")
        IN  /\ last'.res = "DatabaseError"
            /\ Len(archives) = 1
            /\ archives[1].recipient = NextChannel(World)
            /\ archives[1].ok = ~last'.env.archive_fails
            /\ NewCalls = creates \o archives
            /\ NothingStored

C18_FailedInsert == [][C18_FailedInsertStep]_vars

\* The insert failed and the archive call failed as well.
C18_Witness ==
    /\ last.op = "declare"
    /\ last.env.insert_fails
    /\ last.env.archive_fails
    /\ last.res = "DatabaseError"
    /\ slack_log[Len(slack_log)].method = "archive_channel"
    /\ ~slack_log[Len(slack_log)].ok
    /\ incidents = <<>>

DetailsPosts == CallsOf(BeforeNotification, "post_message")

\* C19: a declaration whose post of the incident details into the new channel
\* fails ends with an error, and nothing follows the failed post.
C19_FailedDetailsPostStep ==
    (last'.op = "declare" /\ DetailsPosts # <<>> /\ ~DetailsPosts[1].ok) =>
        /\ last'.res # "Ok"
        /\ NewCalls[Len(NewCalls)] = DetailsPosts[1]

C19_FailedDetailsPostAborts == [][C19_FailedDetailsPostStep]_vars

\* The details post of a declaration failed.
C19_Witness ==
    /\ last.op = "declare"
    /\ "C_inc1" \in last.down
    /\ \E i \in 1..last.slack_from :
          /\ slack_log[i].method = "post_message"
          /\ slack_log[i].recipient = "C_inc1"
          /\ ~slack_log[i].ok

\* C20: a declaration that got past the audit record reports success and
\* leaves the incident stored whichever of invitation, pin, notification and
\* job sending fail, and every step is still taken: the invitation, the
\* details post, the pin when the post succeeded, the notification call, and
\* the job whenever the service is mapped and lookup and sending work.
C20_SecondaryFailuresStep ==
    (last'.op = "declare" /\ "invite_fails" \in last'.asked) =>
        LET invites == CallsOf(BeforeNotification, "invite_users")
            pins == CallsOf(BeforeNotification, "pin_message")
            mapped == \E m \in statuspage_mappings :
                          m.service_name = incidents'[NextId(DB)].affected_service
        IN  /\ last'.res = "Ok"
            /\ Persisted
            /\ Len(timeline') = Len(timeline) + 1
            /\ Len(audit_log') = Len(audit_log) + 1
            /\ Len(invites) = 1 /\ invites[1].ok = ~last'.env.invite_fails
            /\ Len(DetailsPosts) = 1
            /\ Len(pins) = IF DetailsPosts[1].ok THEN 1 ELSE 0
            /\ pins # <<>> => pins[1].ok = ~last'.env.pin_fails
            /\ last'.notify \in {"Ok", "SlackAPIError"}
            /\ RouterCalls' # <<>>
            /\ RouterCalls'[1].recipient = NextChannel(World)
            /\ Len(jobs') = Len(jobs)
                   + IF mapped /\ ~last'.env.lookup_fails /\ ~last'.env.send_fails THEN 1 ELSE 0
            /\ Len(jobs') > Len(jobs) => jobs'[Len(jobs')].incident_id = NextId(DB)

C20_SecondaryFailures == [][C20_SecondaryFailuresStep]_vars

\* Invitation, pin, notification and job sending all failed and the
\* declaration reported success.
C20_Witness ==
    /\ last.op = "declare"
    /\ last.res = "Ok"
    /\ last.env.invite_fails
    /\ last.env.pin_fails
    /\ last.env.send_fails
    /\ last.notify = "SlackAPIError"
    /\ statuspage_mappings # {}
    /\ jobs = <<>>
    /\ DOMAIN incidents = {1}

\* ------------------------------------------------------- the job worker
Finished(t) == t \in 1..Len(tasks) /\ tasks[t].state = "done"

\* C21: the worker's loop is running until it ends, and it ends only with no
\* sender left and nothing in the queue; a finished job's result is decided by
\* what became of that job alone and is never changed by a later step; and
\* every job sent is eventually received and its task spawned, whatever
\* becomes of the other jobs.
C21_DispatcherNeverHalted ==
    /\ [](worker \in {"running", "stopped"})
    /\ [](worker = "stopped" => ~senders /\ received = Len(jobs))
    /\ [](\A t \in 1..Len(tasks) :
              /\ tasks[t].job = jobs[t]
              /\ Finished(t) =>
                    tasks[t].result = IF tasks[t].response = "panic" THEN "panicked" ELSE "Ok")
    /\ [][\A t \in 1..Len(tasks) : Finished(t) => tasks'[t] = tasks[t]]_vars
    /\ \A k \in 1..MaxCommands : (Len(jobs) >= k) ~> (Len(tasks) >= k)

\* The first job crashed, the second was received all the same and ran into
\* an error answer, and the loop ended after the shutdown.
C21_Witness ==
    /\ Len(tasks) = 2
    /\ tasks[1].result = "panicked"
    /\ tasks[2].response = "http_error"
    /\ tasks[2].result = "Ok"
    /\ worker = "stopped"

\* A step of the worker or of one of its tasks.
WorkerStep == received' # received \/ tasks' # tasks \/ statuspage_log' # statuspage_log

\* C22: a job is run only after the command that sent it has reported its
\* outcome, no step of the worker or of a job changes what a command reported
\* or stored, and a sync job that was not killed ends with Ok whether the
\* status page answered with success, with an error, not at all, or no client
\* is configured.
C22_SyncFailureSwallowed ==
    /\ [](Len(tasks) <= Len(jobs) /\ Len(jobs) <= commands)
    /\ [][WorkerStep => UNCHANGED <<last, dbVars, slack_log, jobs, commands>>]_vars
    /\ [](\A t \in 1..Len(tasks) :
              (Finished(t) /\ tasks[t].response # "panic") => tasks[t].result = "Ok")
    /\ [](\A i \in 1..Len(statuspage_log) : statuspage_client # None)

\* The resolution was reported as done; its sync job was answered with an
\* error by the status page and ended with Ok.
C22_Witness ==
    /\ last.op = "resolved"
    /\ last.res = "Ok"
    /\ Len(tasks) = 2
    /\ tasks[2].job.status = "resolved"
    /\ tasks[2].response = "http_error"
    /\ tasks[2].result = "Ok"
    /\ ~statuspage_log[Len(statuspage_log)].ok

\* The component status the status page is to show, by incident status and
\* severity.
StatusTable ==
    [status \in IncidentStatus |->
        CASE status \in {"declared", "investigating"} ->
                 [P1 |-> "major_outage", P2 |-> "partial_outage",
                  P3 |-> "degraded_performance", P4 |-> "degraded_performance"]
          [] status \in {"identified", "monitoring"} ->
                 [P1 |-> "partial_outage", P2 |-> "degraded_performance",
                  P3 |-> "degraded_performance", P4 |-> "degraded_performance"]
          [] status = "resolved" ->
                 [P1 |-> "operational", P2 |-> "operational",
                  P3 |-> "operational", P4 |-> "operational"]]

\* C23: every component update sent for a status and a severity carries the
\* component status the table gives for that pair.
C23_StatusMappingTable ==
    /\ Len(statuspage_log) = Len(tasks)
    /\ \A i \in 1..Len(statuspage_log) :
          statuspage_log[i].status = StatusTable[tasks[i].job.status][tasks[i].job.severity]

\* A P1 incident that is being monitored shows as a partial outage, a
\* resolved one as operational.
C23_Witness ==
    /\ Len(statuspage_log) = 2
    /\ tasks[1].job.status = "monitoring" /\ tasks[1].job.severity = "P1"
    /\ statuspage_log[1].status = "partial_outage"
    /\ tasks[2].job.status = "resolved" /\ tasks[2].job.severity = "P1"
    /\ statuspage_log[2].status = "operational"

\* ------------------------------------------------- the two chat endpoints
\* handle_slash_command and handle_interaction check the signature, parse the
\* body, hand the work to a task of its own (tokio::spawn) and return 200.
\* The task is runnable from the moment it is spawned, on any thread of the
\* runtime: nothing makes it wait for the response.
MaxRequests == 2

ResponseUrl(user_id) == "hook_" \o user_id

post_to_response_url(w, response_url, fails) ==
    [w EXCEPT !.slack = Append(@, [method |-> "post_to_response_url",
                                   recipient |-> response_url,
                                   ok |-> ~fails,
                                   error |-> IF fails THEN "500" ELSE ""])]

open_modal(w, trigger_id, fails) ==
    [w EXCEPT !.slack = Append(@, [method |-> "open_modal",
                                   recipient |-> trigger_id,
                                   ok |-> ~fails,
                                   error |-> IF fails THEN "expired_trigger_id" ELSE ""])]

\* handle_declare: the templates are read, the modal is opened.
handle_declare(w, user_id, templates_fail, modal_fails) ==
    IF templates_fail THEN Replied(w, "DatabaseError", None)
    ELSE IF modal_fails THEN Replied(open_modal(w, user_id, TRUE), "SlackAPIError", None)
    ELSE Replied(open_modal(w, user_id, FALSE), "Ok", None)

\* The ends at which a handler answers through the response URL itself and
\* returns the result of that post; at any other end it returns the error.
Answered == {"Ok", "NotFound", "PermissionDenied", "AlreadyAtSeverity", "AlreadyResolved"}

\* process_slash_command, from the handler's outcome o to its result.
process_slash_command(o, subcommand, user_id, reply_fails) ==
    IF subcommand # "declare" /\ o.res \in Answered
    THEN [w |-> post_to_response_url(o.w, ResponseUrl(user_id), reply_fails),
          result |-> IF reply_fails THEN "Err" ELSE "Ok"]
    ELSE [w |-> o.w, result |-> IF o.res = "Ok" THEN "Ok" ELSE "Err"]

\* process_interaction: `handle_modal_submission(..).await?`
process_interaction(o) ==
    [w |-> o.w, result |-> IF o.res = "Ok" THEN "Ok" ELSE "Err"]

\* The `if let Err(e)` of the spawned task: the task of a slash command logs
\* the error and posts it to the response URL (a failure of that post is
\* logged); the task of an interaction logs the error.
report_to_the_user(t, kind, user_id, report_fails) ==
    IF t.result = "Err" /\ kind = "command"
    THEN post_to_response_url(t.w, ResponseUrl(user_id), report_fails)
    ELSE t.w

\* What the task of a request has added to the storage, to the calls of the
\* chat client other than those to the response URL, and to the job queue.
Effects(w, w1) ==
    (Len(w1.db.timeline) - Len(w.db.timeline))
      + (Len(w1.db.audit_log) - Len(w.db.audit_log))
      + (Len(w1.db.notifications) - Len(w.db.notifications))
      + (Cardinality(DOMAIN w1.db.incidents) - Cardinality(DOMAIN w.db.incidents))
      + (IF w1.db.incidents # w.db.incidents THEN 1 ELSE 0)
      + (Len(CallsOf(w1.slack, "create_conversation")) - Len(CallsOf(w.slack, "create_conversation")))
      + (Len(CallsOf(w1.slack, "post_message")) - Len(CallsOf(w.slack, "post_message")))
      + (Len(CallsOf(w1.slack, "send_dm")) - Len(CallsOf(w.slack, "send_dm")))
      + (Len(w1.jobs) - Len(w.jobs))

Reports(w, w1) ==
    Len(CallsOf(w1.slack, "post_to_response_url")) - Len(CallsOf(w.slack, "post_to_response_url"))

Subcommands == {"declare", "status", "resolved"}

\* The request passes the signature check and the parsing, and its task is
\* spawned; or it fails the signature check and is answered with 401.
Receive ==
    /\ Len(requests) < MaxRequests
    /\ \E kind \in {"command", "interaction"}, user \in Submitters, signature_ok \in BOOLEAN :
       \E subcommand \in IF kind = "command" THEN Subcommands ELSE {"view_submission"} :
          requests' = Append(requests,
              [kind |-> kind, subcommand |-> subcommand, user |-> user,
               response |-> IF signature_ok THEN "none" ELSE "401",
               task |-> IF signature_ok THEN "spawned" ELSE "none",
               result |-> "none", acked_before |-> FALSE, effects |-> 0,
               reports |-> 0, replied |-> FALSE])
    /\ UNCHANGED <<dbVars, last, history, faults, notifyVars, smVars, lockVars,
                   workerVars, purge, inflight, named>>

\* `StatusCode::OK.into_response()`
Acknowledge(r) ==
    /\ requests[r].response = "none"
    /\ requests' = [requests EXCEPT ![r].response = "200"]
    /\ UNCHANGED <<dbVars, last, history, faults, notifyVars, smVars, lockVars,
                   workerVars, purge, inflight, named>>

\* The task of request r has run to its end with outcome o of its handler.
Processed(r, op, severity, o, t, report_fails) ==
    LET req == requests[r]
        w1 == report_to_the_user(t, req.kind, req.user, report_fails)
    IN  /\ report_fails => (t.result = "Err" /\ req.kind = "command")
        /\ CommitWorld(w1)
        /\ last' = Command(op, req.user, severity, {}, o)
        /\ history' = IF o.res = "Ok" /\ IsSome(o.ret)
                      THEN Append(history, [op |-> op, incident_id |-> Unwrap(o.ret).id,
                                            noop |-> FALSE])
                      ELSE history
        /\ commands' = commands + 1
        /\ requests' = [requests EXCEPT ![r] =
               [@ EXCEPT !.task = "done",
                         !.result = t.result,
                         !.acked_before = req.response = "200",
                         !.effects = Effects(World, w1),
                         !.reports = Reports(t.w, w1),
                         !.replied = Reports(World, t.w) > 0]]
        /\ UNCHANGED <<faults, config, statuspage_mappings, smVars, lockVars,
                       workerVars, purge, inflight, named>>

\* What one declaration meets: nothing out of order, a channel that cannot
\* be created, an insert that fails, a timeline statement that fails.
RequestEnvs(w, service) ==
    {Dependable(w, service),
     [Dependable(w, service) EXCEPT !.create = <<"ratelimited", "ok">>],
     [Dependable(w, service) EXCEPT !.insert_fails = TRUE],
     [Dependable(w, service) EXCEPT !.timeline_fails = TRUE]}

\* The spawned task of a slash command.
ProcessSlashCommand(r) ==
    /\ requests[r].task = "spawned"
    /\ requests[r].kind = "command"
    /\ \E reply_fails \in BOOLEAN, report_fails \in BOOLEAN :
       /\ LET user == requests[r].user IN
          \/ /\ requests[r].subcommand = "declare"
             /\ ~reply_fails
             /\ \E templates_fail \in BOOLEAN, modal_fails \in BOOLEAN :
                  /\ ~(templates_fail /\ modal_fails)
                  /\ LET o == handle_declare(World, user, templates_fail, modal_fails) IN
                     Processed(r, "declare_command", None, o,
                               process_slash_command(o, "declare", user, reply_fails),
                               report_fails)
          \/ /\ requests[r].subcommand = "status"
             /\ \E channel_id \in Channels, message \in Messages :
                  LET o == handle_status(World, config, channel_id, user, message, {}) IN
                  Processed(r, "status", None, o,
                            process_slash_command(o, "status", user, reply_fails),
                            report_fails)
          \/ /\ requests[r].subcommand = "resolved"
             /\ \E channel_id \in Channels :
                  LET o == handle_resolved(World, config, channel_id, user, {}) IN
                  Processed(r, "resolved", None, o,
                            process_slash_command(o, "resolved", user, reply_fails),
                            report_fails)

\* The spawned task of a modal submission.
ProcessInteraction(r) ==
    /\ requests[r].task = "spawned"
    /\ requests[r].kind = "interaction"
    /\ NextId(DB) <= MaxDeclared
    /\ \E severity \in ServedSeverities, service \in Services :
       \E env \in RequestEnvs(World, service) :
          LET o == handle_modal_submission(World, config, severity, service,
                                           requests[r].user, {}, env)
          IN  Processed(r, "declare", Some(severity), o, process_interaction(o), FALSE)

InitRequests ==
    /\ incidents = <<>>
    /\ timeline = <<>>
    /\ audit_log = <<>>
    /\ notifications = <<>>
    /\ now = 0
    /\ last = NoCall
    /\ history = <<>>
    /\ faults = <<>>
    /\ slack_log = <<>>
    /\ throttle_map = <<>>
    /\ config = TestConfig
    /\ commands = 0
    /\ sm_path = <<"declared">>
    /\ sm_query = None
    /\ LockInit
    /\ SideInit
    /\ jobs = <<>>
    /\ statuspage_mappings = SeededMappings

NextRequests ==
    \/ Receive
    \/ \E r \in 1..Len(requests) : Acknowledge(r)
    \/ \E r \in 1..Len(requests) : ProcessSlashCommand(r)
    \/ \E r \in 1..Len(requests) : ProcessInteraction(r)

SpecRequests == InitRequests /\ [][NextRequests]_vars

\* C24: a request that passed the checks is answered with 200 before its task
\* writes to the storage, provisions a channel, notifies or sends a job, and a
\* task that ended with an error has attempted to report it to the user through
\* the response URL of the request.
C24_AckThenDetachedWork ==
    \A r \in 1..Len(requests) :
        requests[r].task = "done" =>
            /\ requests[r].effects > 0 => requests[r].acked_before
            /\ requests[r].result = "Err" => requests[r].reports > 0

\* A modal submission was answered with 200, its task then failed on the
\* insert of the incident after creating the channel, and nothing was posted
\* to the user.
C24_Witness ==
    \E r \in 1..Len(requests) :
        /\ requests[r].kind = "interaction"
        /\ requests[r].task = "done"
        /\ requests[r].acked_before
        /\ requests[r].result = "Err"
        /\ requests[r].effects > 0
        /\ requests[r].reports = 0
        /\ last.res = "DatabaseError"

\* ------------------------------------------- incidents and their channels
\* UPDATE incidents SET slack_channel_id = $1, updated_at = NOW() WHERE id = $2
\* An id that matches no row updates nothing and is no error.
update_channel_id(db, incident_id, channel_id) ==
    IF incident_id \in DOMAIN db.incidents
    THEN Stamp([db EXCEPT !.incidents[incident_id].slack_channel_id = Some(channel_id)])
    ELSE Stamp(db)

\* The rows `slack_channel_id = $1 AND status != 'resolved'` selects.
ActiveOn(db, channel_id) ==
    {i \in DOMAIN db.incidents :
        /\ db.incidents[i].slack_channel_id = Some(channel_id)
        /\ db.incidents[i].status # "resolved"}

\* The rows `slack_channel_id = $1` selects.
BoundTo(db, channel_id) ==
    {i \in DOMAIN db.incidents : db.incidents[i].slack_channel_id = Some(channel_id)}

\* IncidentService::update_channel_id, called with any incident id and any
\* channel.
UpdateChannelId(L) ==
    /\ Len(history) < L.ops
    /\ \E id \in IncidentIds, channel_id \in Channels :
          /\ Commit(update_channel_id(DB, id, channel_id))
          /\ last' = [op |-> "update_channel_id", incident_id |-> id, channel_id |-> channel_id,
                      res |-> "Ok", ret |-> None]
          /\ history' = Append(history, [op |-> "update_channel_id", incident_id |-> id,
                                         noop |-> id \notin DOMAIN incidents])
    /\ UNCHANGED <<faults, notifyVars, smVars, lockVars, sideVars>>

\* get_by_channel: fetch_optional takes the first row of the result, and the
\* statement gives the rows no order.
GetByChannel ==
    /\ last.op # "get_by_channel"
    /\ \E channel_id \in Channels :
          \E ret \in IF ActiveOn(DB, channel_id) = {} THEN {None}
                     ELSE {Some(incidents[i]) : i \in ActiveOn(DB, channel_id)} :
             last' = [op |-> "get_by_channel", channel_id |-> channel_id,
                      res |-> IF ret = None THEN "NotFound" ELSE "Ok", ret |-> ret]
    /\ UNCHANGED <<dbVars, history, faults, notifyVars, smVars, lockVars, sideVars>>

\* get_latest_by_channel: ORDER BY declared_at DESC LIMIT 1
GetLatestByChannel ==
    /\ last.op # "get_latest_by_channel"
    /\ \E channel_id \in Channels :
          LET ret == get_latest_incident_by_channel(DB, channel_id) IN
          last' = [op |-> "get_latest_by_channel", channel_id |-> channel_id,
                   res |-> IF ret = None THEN "NotFound" ELSE "Ok", ret |-> ret]
    /\ UNCHANGED <<dbVars, history, faults, notifyVars, smVars, lockVars, sideVars>>

\* The service creating incidents, binding channels to them and resolving
\* them, with the two lookups made in between.
NextChannels ==
    \/ CreateIncident({0}, Limits)
    \/ UpdateChannelId(Limits)
    \/ ResolveIncident({0}, Limits)
    \/ GetByChannel
    \/ GetLatestByChannel

SpecChannels == Init /\ [][NextChannels]_vars

\* C25: no channel has two incidents that are not resolved bound to it; a
\* get_by_channel returns the one unresolved incident of the channel, or
\* NotFound when the channel has none; a get_latest_by_channel returns the
\* incident of the channel that was declared last, whatever its status, or
\* NotFound when no incident is bound to the channel.
C25_OneActiveIncidentPerChannel ==
    /\ \A channel_id \in Channels : Cardinality(ActiveOn(DB, channel_id)) <= 1
    /\ last.op = "get_by_channel" =>
          IF ActiveOn(DB, last.channel_id) = {} THEN last.res = "NotFound"
          ELSE /\ last.res = "Ok"
               /\ ActiveOn(DB, last.channel_id) = {Unwrap(last.ret).id}
               /\ Unwrap(last.ret).status # "resolved"
    /\ last.op = "get_latest_by_channel" =>
          IF BoundTo(DB, last.channel_id) = {} THEN last.res = "NotFound"
          ELSE /\ last.res = "Ok"
               /\ Unwrap(last.ret).id \in BoundTo(DB, last.channel_id)
               /\ \A i \in BoundTo(DB, last.channel_id) :
                      incidents[i].declared_at <= Unwrap(last.ret).declared_at

\* Two incidents that are not resolved are bound to one channel, and
\* get_by_channel returned the one declared first.
C25_Witness ==
    /\ last.op = "get_by_channel"
    /\ Cardinality(ActiveOn(DB, last.channel_id)) = 2
    /\ last.res = "Ok"
    /\ Unwrap(last.ret).id = 1

\* ------------------------------------------------------------ the purge
\* delete_incident issues four statements on the pool, one after the other
\* and outside any transaction; other calls may have their statements run in
\* between.  The tables incident_timeline, incident_notifications and
\* audit_log reference incidents(id): the storage refuses a row that refers to
\* no incident and refuses to delete an incident that rows refer to.
MaxPurges == 1
MaxUpdates == 1

\* The rows of the three tables that refer to the incident.
Referring(db, incident_id) ==
    [incident_timeline |-> {i \in 1..Len(db.timeline) : db.timeline[i].incident_id = incident_id},
     incident_notifications |->
         {i \in 1..Len(db.notifications) : db.notifications[i].incident_id = incident_id},
     audit_log |-> {i \in 1..Len(db.audit_log) : db.audit_log[i].incident_id = Some(incident_id)}]

Referred(db, incident_id) ==
    \E t \in DOMAIN Referring(db, incident_id) : Referring(db, incident_id)[t] # {}

\* The foreign keys, as the storage checks them on INSERT and on DELETE.
insert_allowed(db, incident_id) == incident_id \in DOMAIN db.incidents

delete_allowed(db, incident_id) == ~Referred(db, incident_id)

delete_incident_statements_incident_first ==
    <<"incidents", "incident_notifications", "incident_timeline", "audit_log">>

\* The statements of delete_incident, in the order they are issued.
delete_incident_statements ==
    <<"incident_notifications", "incident_timeline", "audit_log", "incidents">>

\* DELETE FROM <table> WHERE incident_id = $1 / DELETE FROM incidents WHERE id = $1
delete_from(db, table, incident_id) ==
    Stamp(CASE table = "incident_notifications" ->
                   [db EXCEPT !.notifications =
                       SelectSeq(@, LAMBDA row : row.incident_id # incident_id)]
            [] table = "incident_timeline" ->
                   [db EXCEPT !.timeline =
                       SelectSeq(@, LAMBDA row : row.incident_id # incident_id)]
            [] table = "audit_log" ->
                   [db EXCEPT !.audit_log =
                       SelectSeq(@, LAMBDA row : row.incident_id # Some(incident_id))]
            [] table = "incidents" ->
                   [db EXCEPT !.incidents =
                       [i \in DOMAIN @ \ {incident_id} |-> @[i]]])

\* IncidentService::delete_incident is called.
BeginPurge ==
    /\ purge.pc \in {"idle", "done", "failed"}
    /\ purge.runs < MaxPurges
    /\ \E id \in IncidentIds :
          purge' = [pc |-> "running", runs |-> purge.runs + 1, id |-> id,
                    attempted |-> <<>>, existed |-> id \in DOMAIN incidents,
                    res |-> "none", cause |-> "none"]
    /\ UNCHANGED <<dbVars, last, history, faults, notifyVars, smVars, lockVars,
                   workerVars, requests, inflight, named>>

\* The next statement of the purge: it fails in the storage, or it is refused
\* by a foreign key, or it deletes its rows; `?` ends the purge at the first
\* statement that fails.
PurgeStatement ==
    /\ purge.pc = "running"
    /\ LET table == delete_incident_statements[Len(purge.attempted) + 1]
           attempted == Append(purge.attempted, table)
       IN  \E fails \in BOOLEAN :
              IF fails
              THEN /\ purge' = [purge EXCEPT !.pc = "failed", !.attempted = attempted,
                                             !.res = "DatabaseError", !.cause = "storage"]
                   /\ Commit(Stamp(DB))
              ELSE IF table = "incidents" /\ ~delete_allowed(DB, purge.id)
              THEN /\ purge' = [purge EXCEPT !.pc = "failed", !.attempted = attempted,
                                             !.res = "DatabaseError", !.cause = "foreign_key"]
                   /\ Commit(Stamp(DB))
              ELSE /\ purge' = [purge EXCEPT
                                   !.pc = IF Len(attempted) = Len(delete_incident_statements)
                                          THEN "done" ELSE "running",
                                   !.attempted = attempted,
                                   !.res = IF Len(attempted) = Len(delete_incident_statements)
                                           THEN "Ok" ELSE "none"]
                   /\ Commit(delete_from(DB, table, purge.id))
    /\ UNCHANGED <<last, history, faults, notifyVars, smVars, lockVars,
                   workerVars, requests, inflight, named>>

\* A status update on an incident, from the read of the incident to the
\* notification record, one statement at a time.
BeginUpdate ==
    /\ inflight.pc \in {"idle", "done"}
    /\ inflight.runs < MaxUpdates
    /\ \E id \in IncidentIds, actor \in Submitters :
          LET found == get_incident_by_id(DB, id)
              res == IF found = None THEN "NotFound"
                     ELSE IF ~validate_commander(Unwrap(found), actor) THEN "PermissionDenied"
                     ELSE IF is_terminal(Unwrap(found).status) THEN "ValidationError"
                     ELSE "none"
          IN  inflight' = [pc |-> IF res = "none" THEN "incident_timeline" ELSE "done",
                           runs |-> inflight.runs + 1, id |-> id, actor |-> actor,
                           res |-> res]
    /\ UNCHANGED <<dbVars, last, history, faults, notifyVars, smVars, lockVars,
                   workerVars, requests, purge, named>>

UpdateStatement ==
    /\ inflight.pc \in {"incident_timeline", "audit_log", "incident_notifications"}
    /\ IF ~insert_allowed(DB, inflight.id)
       THEN /\ inflight' = [inflight EXCEPT
                               !.pc = "done",
                               !.res = IF inflight.pc = "incident_notifications"
                                       THEN "Ok" ELSE "DatabaseError"]
            /\ Commit(Stamp(DB))
       ELSE CASE inflight.pc = "incident_timeline" ->
                    /\ inflight' = [inflight EXCEPT !.pc = "audit_log"]
                    /\ Commit(timeline_queries_log_event(DB, inflight.id, "status_update",
                                  Message("Investigating", "", "", 0, 0), inflight.actor))
              [] inflight.pc = "audit_log" ->
                    /\ inflight' = [inflight EXCEPT !.pc = "incident_notifications"]
                    /\ Commit(audit_log_action(DB, Some(inflight.id), "post_status_update",
                                  inflight.actor, None, None))
              [] inflight.pc = "incident_notifications" ->
                    /\ inflight' = [inflight EXCEPT !.pc = "done", !.res = "Ok"]
                    /\ Commit(log_notification(DB, inflight.id, "slack_channel",
                                  ChannelOf(inflight.id), "sent"))
    /\ UNCHANGED <<last, history, faults, notifyVars, smVars, lockVars,
                   workerVars, requests, purge, named>>

\* Incidents are declared before the first purge (an id is never given twice)
\* and before the status update.  The purge never looks at the severity or the
\* commander of an incident.
DeclareBeforePurge ==
    /\ purge.runs = 0
    /\ inflight.runs = 0
    /\ NextId(DB) <= MaxIncidents
    /\ LET r == IncidentService_create_incident(DB, "P1", "api", "U1", 0)
       IN  /\ Commit(r.db)
           /\ last' = Call("create_incident", NextId(DB), "U1", None, r, None)
                          @@ [severity |-> "P1", service |-> "api"]
           /\ Record(r, "create_incident", NextId(DB), FALSE)
    /\ UNCHANGED <<notifyVars, smVars, lockVars, sideVars>>

NextPurge ==
    \/ DeclareBeforePurge
    \/ BeginUpdate
    \/ UpdateStatement
    \/ BeginPurge
    \/ PurgeStatement

SpecPurge == Init /\ [][NextPurge]_vars

\* Every row of the three tables refers to a stored incident.
ReferentialIntegrity ==
    /\ \A i \in 1..Len(timeline) : timeline[i].incident_id \in DOMAIN incidents
    /\ \A i \in 1..Len(notifications) : notifications[i].incident_id \in DOMAIN incidents
    /\ \A i \in 1..Len(audit_log) :
          audit_log[i].incident_id # None => Unwrap(audit_log[i].incident_id) \in DOMAIN incidents

IsPrefix(s, t) == Len(s) <= Len(t) /\ SubSeq(t, 1, Len(s)) = s

\* C26: every timeline event, notification record and incident-bound audit
\* record refers to a stored incident, while a purge runs, after it failed at
\* any statement and with a status update on the same incident running in
\* between; the purge issues its deletes in the order notifications,
\* timeline, audit records, incident; a completed purge leaves neither the
\* incident nor a record of it, then and ever after; a purge is refused by the
\* storage only at the delete of the incident.
C26_PurgeKeepsReferences ==
    /\ ReferentialIntegrity
    /\ purge.pc # "idle" =>
          /\ IsPrefix(purge.attempted,
                      <<"incident_notifications", "incident_timeline", "audit_log", "incidents">>)
          /\ purge.cause = "foreign_key" => Len(purge.attempted) = 4
          /\ purge.pc = "done" =>
                /\ Len(purge.attempted) = 4
                /\ purge.id \notin DOMAIN incidents
                /\ ~Referred(DB, purge.id)

\* The purge of an incident with records completed while a status update on
\* that incident was under way; the update then failed on its insert.
C26_Witness ==
    /\ purge.pc = "done"
    /\ purge.existed
    /\ inflight.pc = "done"
    /\ inflight.id = purge.id
    /\ inflight.res = "DatabaseError"
    /\ incidents # <<>>

\* --------------------------------------- the lifecycle over a failing storage
\* What one declaration meets here: what RequestEnvs lists, or an audit
\* statement that fails.
FaultEnvs(w, service) ==
    RequestEnvs(w, service) \cup {[Dependable(w, service) EXCEPT !.audit_fails = TRUE]}

\* A modal submission of a P3 incident while no incident is stored, every
\* delivery working (the severity decides the recipients of the notification
\* and nothing else).
SubmitWithFaults ==
    /\ commands < MaxSubmissions
    /\ DOMAIN incidents = {}
    /\ \E severity \in {"P3"}, service \in Services, user \in Submitters :
       \E env \in FaultEnvs(World, service) :
          Ran("declare", user, Some(severity), {},
              handle_modal_submission(World, config, severity, service, user, {}, env))

MaxFaultOps == 2

\* The calls of the service on a stored incident by its commander, any one
\* statement of a call failing in the storage (a call by somebody else or on
\* an unknown id stores nothing).
StatusUpdateOnFailingStorage ==
    /\ Len(history) < MaxFaultOps
    /\ \E id \in DOMAIN incidents, message \in Messages, fault \in 0..4 :
          /\ MayFail(fault)
          /\ LET actor == incidents[id].commander_id
                 r == IncidentService_post_status_update(DB, id, message, actor, fault)
             IN  /\ Commit(r.db)
                 /\ last' = Call("post_status_update", id, actor, get_incident_by_id(DB, id),
                                 r, None) @@ [fault |-> fault]
                 /\ Record(r, "post_status_update", id, FALSE)
    /\ UNCHANGED <<notifyVars, smVars, lockVars, sideVars>>

SeverityChangeOnFailingStorage ==
    /\ Len(history) < MaxFaultOps
    /\ \E id \in DOMAIN incidents, severity \in LifecycleSeverity, fault \in 0..5 :
          /\ MayFail(fault)
          /\ LET actor == incidents[id].commander_id
                 r == IncidentService_change_severity(DB, id, severity, actor, fault)
             IN  /\ Commit(r.db)
                 /\ last' = Call("change_severity", id, actor, get_incident_by_id(DB, id),
                                 r, r.old) @@ [severity |-> severity, fault |-> fault]
                 /\ Record(r, "change_severity", id, FALSE)
    /\ UNCHANGED <<notifyVars, smVars, lockVars, sideVars>>

ResolutionOnFailingStorage ==
    /\ Len(history) < MaxFaultOps
    /\ \E id \in DOMAIN incidents, fault \in 0..4 :
          /\ MayFail(fault)
          /\ LET actor == incidents[id].commander_id
                 pre == get_incident_by_id(DB, id)
                 r == IncidentService_resolve_incident(DB, id, actor, fault)
             IN  /\ Commit(r.db)
                 /\ last' = Call("resolve_incident", id, actor, pre, r, None)
                                @@ [fault |-> fault]
                 /\ Record(r, "resolve_incident", id, is_terminal(Unwrap(pre).status))
    /\ UNCHANGED <<notifyVars, smVars, lockVars, sideVars>>

NextFault ==
    \/ SubmitWithFaults
    \/ StatusUpdateOnFailingStorage
    \/ SeverityChangeOnFailingStorage
    \/ ResolutionOnFailingStorage

SpecFault == Init /\ [][NextFault]_vars

\* The events of an incident, in the order they were inserted.
TimelineOf(tl, id) == SelectSeq(tl, LAMBDA row : row.incident_id = id)

\* C27: whatever a step of the lifecycle does and however it ends, the rows of
\* the timeline table it found are still the first rows of the table, and for
\* every incident the events it had, as inserted and as get_timeline reads
\* them back, are the first events it has afterwards, unchanged and in order.
C27_TimelineAppendOnly ==
    [][/\ IsPrefix(timeline, timeline')
       /\ \A id \in 1..(MaxIncidents + 1) :
             /\ IsPrefix(TimelineOf(timeline, id), TimelineOf(timeline', id))
             /\ \A before \in get_timeline(DB, id) :
                   \A after \in get_timeline(DB', id) : IsPrefix(before, after)]_vars

\* A resolution failed on its audit statement after adding its event to the
\* event of the declaration.
C27_Witness ==
    /\ last.op = "resolve_incident"
    /\ last.res = "DatabaseError"
    /\ last.fault = 4
    /\ Len(TimelineOf(timeline, last.incident_id)) = 2
    /\ timeline[Len(timeline)].event_type = "resolved"
    /\ timeline[1].event_type = "declared"

\* resolved_at and duration_minutes are set on a resolved incident and on no
\* other.
WellFormed(incident) ==
    IF incident.status = "resolved"
    THEN IsSome(incident.resolved_at) /\ IsSome(incident.duration_minutes)
    ELSE incident.resolved_at = None /\ incident.duration_minutes = None

\* The step is a call whose timeline or audit statement fails after its first
\* write went through.
LoggingFailed ==
    \/ /\ last'.op = "declare"
       /\ \E f \in {"timeline_fails", "audit_fails"} : last'.env[f] /\ f \in last'.asked
    \/ /\ last'.op = "change_severity"
       /\ last'.fault \in {3, 4}
    \/ /\ last'.op = "resolve_incident"
       /\ last'.fault \in {3, 4}
       /\ ~is_terminal(Unwrap(last'.pre).status)

\* C28: a declaration whose timeline or audit statement fails returns the
\* storage error, its incident is stored with its channel, and the channel is
\* not archived; a severity change whose timeline or audit statement fails
\* returns the storage error and the incident has the new severity; a
\* resolution whose timeline or audit statement fails returns the storage
\* error and the incident is resolved, resolved_at being the time of the
\* update; nothing else of the incident changes, no row written before the
\* failing statement is taken back, and resolved_at and duration_minutes of
\* the incident agree with its status.
C28_CoreMutationStaysStep ==
    LoggingFailed =>
        /\ last'.res = "DatabaseError"
        /\ IsPrefix(timeline, timeline')
        /\ IsPrefix(audit_log, audit_log')
        /\ last'.op = "declare" =>
              /\ Persisted
              /\ incidents'[NextId(DB)].slack_channel_id = Some(NextChannel(World))
              /\ incidents'[NextId(DB)].status = "declared"
              /\ CallsOf(NewCalls, "archive_channel") = <<>>
              /\ NewCalls = CallsOf(NewCalls, "create_conversation")
              /\ Len(timeline') = Len(timeline) + (IF last'.env.timeline_fails THEN 0 ELSE 1)
              /\ audit_log' = audit_log
              /\ WellFormed(incidents'[NextId(DB)])
        /\ last'.op = "change_severity" =>
              /\ incidents'[last'.incident_id] =
                     [incidents[last'.incident_id] EXCEPT !.severity = last'.severity]
              /\ Len(timeline') = Len(timeline) + (last'.fault - 3)
              /\ audit_log' = audit_log
              /\ WellFormed(incidents'[last'.incident_id])
        /\ last'.op = "resolve_incident" =>
              /\ incidents'[last'.incident_id].status = "resolved"
              /\ incidents'[last'.incident_id].resolved_at = Some(now)
              /\ incidents'[last'.incident_id].severity = incidents[last'.incident_id].severity
              /\ Len(timeline') = Len(timeline) + (last'.fault - 3)
              /\ audit_log' = audit_log
              /\ WellFormed(incidents'[last'.incident_id])

C28_CoreMutationStays == [][C28_CoreMutationStaysStep]_vars

\* A resolution of the declared incident whose timeline statement failed: the
\* incident is resolved and has no resolved event.
C28_Witness ==
    /\ last.op = "resolve_incident"
    /\ last.fault = 3
    /\ last.res = "DatabaseError"
    /\ incidents[last.incident_id].status = "resolved"
    /\ \A i \in 1..Len(timeline) : timeline[i].event_type # "resolved"

\* ------------------------------------------- channel names, name by name
\* generate_channel_name called for the known service names, on two dates and
\* for the ids of the incidents.
MaxNames == 2

NameDates == {0, SecondsPerDay}

GenerateChannelName ==
    /\ Len(named) < MaxNames
    /\ \E chars \in KnownNames \cup {Chars(s) : s \in Services}, date \in NameDates,
          incident_id \in 1..MaxIncidents :
          named' = Append(named, [service |-> Text(chars), date |-> date,
                                  incident_id |-> incident_id,
                                  name |-> generate_channel_name(Text(chars), date, incident_id)])
    /\ UNCHANGED <<dbVars, last, history, faults, notifyVars, smVars, lockVars,
                   workerVars, requests, purge, inflight>>

NextNames == GenerateChannelName

SpecNames == Init /\ [][NextNames]_vars

\* inc-YYYYMMDD-
NamePrefix(date) == <<"i", "n", "c", "-">> \o format_date(date) \o <<"-">>

\* The slug as the name derivation describes it: lowercased, spaces and
\* underscores turned into hyphens, every other character that is no letter
\* or digit removed, the first 40 characters kept.
DerivedSlug(service) ==
    LET chars == Chars(service)
        hyphenated == [i \in 1..Len(chars) |->
                          IF chars[i] \in {" ", "_"} THEN "-" ELSE to_lowercase(chars[i])]
    IN  Take(SelectSeq(hyphenated, LAMBDA c : c \in Alphanumeric \/ c = "-"), SlugLimit)

\* C29: every generated name starts with inc-YYYYMMDD-, has at most 80
\* characters, and is inc-YYYYMMDD- followed by the derived slug, or, when
\* that would have more than 80 characters, by the first 4 characters of the
\* incident id.
C29_ChannelNameFormat ==
    \A i \in 1..Len(named) :
        LET e == named[i]
            composed == NamePrefix(e.date) \o DerivedSlug(e.service)
        IN  /\ e.name # Panicked
            /\ IsPrefix(NamePrefix(e.date), e.name)
            /\ Len(e.name) <= NameLimit
            /\ e.name = IF Len(composed) > NameLimit
                        THEN NamePrefix(e.date) \o Take(IncidentIdChars(e.incident_id), ShortSuffix)
                        ELSE composed

\* The call for the name "a" followed by twenty "é" panicked.
C29_Witness ==
    \E i \in 1..Len(named) :
        /\ named[i].service = Text(<<"a">> \o Repeat("é", 20))
        /\ named[i].name = Panicked

\* C30: a service name whose slug is empty gets a name made of inc-YYYYMMDD-
\* and leading characters of the incident id, and two incidents with empty
\* slugs and the same date get different names.
C30_EmptySlugFallsBack ==
    \A i \in 1..Len(named) :
        DerivedSlug(named[i].service) = <<>> =>
            /\ \E k \in 1..Len(IncidentIdChars(named[i].incident_id)) :
                  named[i].name = NamePrefix(named[i].date)
                                      \o Take(IncidentIdChars(named[i].incident_id), k)
            /\ \A j \in 1..Len(named) :
                  (/\ DerivedSlug(named[j].service) = <<>>
                   /\ named[j].date = named[i].date
                   /\ named[j].incident_id # named[i].incident_id)
                  => named[j].name # named[i].name

\* The empty name and the name "@#!" got the same channel name for two
\* incidents on the same date.
C30_Witness ==
    /\ Len(named) = 2
    /\ named[1].service = "" /\ named[1].incident_id = 1
    /\ named[2].service = "@#!" /\ named[2].incident_id = 2
    /\ named[1].date = named[2].date
    /\ Text(named[1].name) = "inc-20240101-"
    /\ named[2].name = named[1].name

\* ------------------------------------------------------------------ C31
\* The calls whose sweep is done and whose lookup has not run yet.
Swept == {c \in DOMAIN callers : callers[c].pc = "check"}

C31_EvictionStep ==
    /\ \A c \in DOMAIN callers :
           (callers[c].pc = "sweep" /\ callers'[c].pc = "check") =>
               /\ DOMAIN throttle_map' \subseteq DOMAIN throttle_map
               /\ \A k \in DOMAIN throttle_map :
                      IF callers'[c].at - throttle_map[k] >= RetainSeconds
                      THEN k \notin DOMAIN throttle_map'
                      ELSE k \in DOMAIN throttle_map' /\ throttle_map'[k] = throttle_map[k]
    /\ \A c \in Swept :
           \A k \in DOMAIN throttle_map : callers[c].at - throttle_map[k] < RetainSeconds
    /\ Len(checks') = Len(checks) + 1 =>
           LET done == checks'[Len(checks')]
           IN  /\ \A k \in DOMAIN throttle_map' :
                      ~(done.at - throttle_map'[k] > RetainSeconds)
               /\ done.ret =>
                      \A i \in 1..Len(checks) :
                          (checks[i].key = done.key /\ checks[i].ret)
                              => done.at - checks[i].at >= ThrottleSeconds

\* C31: each throttle check first removes every entry of the throttle map
\* whose last-send time is 10 minutes old or older and keeps every younger
\* entry unchanged, before it looks its own pair up; when a check returns the
\* map holds no entry older than 10 minutes; and a check lets a DM through
\* only if no check for the same pair let one through less than 5 minutes
\* before.
C31_Eviction == [][C31_EvictionStep]_vars

\* A check let a DM through, a check for another pair 10 minutes or more
\* later swept that entry away, and an entry younger than 10 minutes at that
\* later check is still in the map.
C31_Witness ==
    \E i, j \in 1..Len(checks) :
        /\ i < j
        /\ checks[i].ret
        /\ checks[j].key # checks[i].key
        /\ checks[j].at - checks[i].at >= RetainSeconds
        /\ checks[i].key \notin DOMAIN throttle_map
        /\ checks[j].key \in DOMAIN throttle_map

\* A check 400 seconds after the send kept the entry of another pair.
C31_KeptWitness ==
    \E i, j \in 1..Len(checks) :
        /\ i < j
        /\ checks[i].ret
        /\ checks[j].key # checks[i].key
        /\ checks[j].at - checks[i].at > ThrottleSeconds
        /\ checks[i].key \in DOMAIN throttle_map
        /\ throttle_map[checks[i].key] = checks[i].at

\* ------------------------------------------------ verify_slack_signature
\* i64 is modelled in two's complement with IntBits bits instead of 64: wide
\* enough for the clock, the window and the timestamps below, and with the
\* same arithmetic at its ends.
IntBits == 12
I64Min == -(2 ^ (IntBits - 1))
I64Max == 2 ^ (IntBits - 1) - 1

\* The value a wrapping operation leaves for the exact result n.
Wrap(n) == ((n - I64Min) % (2 ^ IntBits)) + I64Min

\* The build decides what an overflowing `-` or abs() does: it panics with
\* overflow checks (the dev profile), it wraps without (the release profile).
Builds == {"overflow_checks", "wrapping"}

\* `60 * 5`
SkewSeconds == 300

\* chrono::Utc::now().timestamp() at the start of the clock.
Epoch == 1000

current_time == Epoch + now

DecimalDigits == <<"0", "1", "2", "3", "4", "5", "6", "7", "8", "9">>

RECURSIVE to_digits(_)
to_digits(n) ==
    IF n < 10 THEN <<DecimalDigits[n + 1]>>
    ELSE Append(to_digits(n \div 10), DecimalDigits[(n % 10) + 1])

\* i64::to_string()
to_string(n) == IF n < 0 THEN <<"-">> \o to_digits(-n) ELSE to_digits(n)

DigitValue(c) == (CHOOSE d \in 1..10 : DecimalDigits[d] = c) - 1

RECURSIVE Magnitude(_)
Magnitude(digits) ==
    IF digits = <<>> THEN 0
    ELSE 10 * Magnitude(SubSeq(digits, 1, Len(digits) - 1)) + DigitValue(digits[Len(digits)])

IsDigits(digits) ==
    /\ digits # <<>>
    /\ \A i \in 1..Len(digits) : \E d \in 1..10 : DecimalDigits[d] = digits[i]

SignedValue(negative, digits) == IF negative THEN -Magnitude(digits) ELSE Magnitude(digits)

ParsedDigits(negative, digits) ==
    IF ~IsDigits(digits) THEN None
    ELSE IF SignedValue(negative, digits) \in I64Min..I64Max
    THEN Some(SignedValue(negative, digits))
    ELSE None

\* str::parse::<i64>(): an optional sign and at least one decimal digit, the
\* value within the range of the type.
parse_i64(chars) ==
    IF chars # <<>> /\ Head(chars) \in {"+", "-"}
    THEN ParsedDigits(Head(chars) = "-", Tail(chars))
    ELSE ParsedDigits(FALSE, chars)

\* a - b and abs() as the build computes them.
Overflows(n) == n \notin I64Min..I64Max

\* `(current_time - request_time).abs() > 60 * 5`: "panic" when a checked
\* operation overflows, else whether the request is too old or too new.
stale(build, at, request_time) ==
    IF build = "overflow_checks" /\ Overflows(at - request_time) THEN "panic"
    ELSE IF build = "overflow_checks" /\ Overflows(-Wrap(at - request_time)) THEN "panic"
    ELSE IF Wrap(at - request_time) < 0
    THEN IF Wrap(-Wrap(at - request_time)) > SkewSeconds THEN "stale" ELSE "fresh"
    ELSE IF Wrap(at - request_time) > SkewSeconds THEN "stale" ELSE "fresh"

\* HMAC-SHA256 of `v0:{timestamp}:{body}` under a key, each (key, message)
\* pair having a code of its own.
hmac(key, timestamp, body) == <<"hmac_sha256", key, <<"v0", timestamp, body>>>>

\* The X-Slack-Signature header: its prefix and what follows it, the hex
\* encoding of a code or text that is no hex encoding.
SignatureOf(key, timestamp, body) == [prefix |-> "v0=", hex |-> Some(hmac(key, timestamp, body))]

\* The stage at which verification ends, and how.
Verdict(result, compared) == [result |-> result, compared |-> compared]

compare_signature(signing_secret, timestamp, body, signature) ==
    IF signature.prefix # "v0=" THEN Verdict("InvalidSignature", FALSE)
    ELSE IF signature.hex = None THEN Verdict("InvalidSignature", FALSE)
    ELSE IF Unwrap(signature.hex) # hmac(signing_secret, timestamp, body)
    THEN Verdict("InvalidSignature", TRUE)
    ELSE Verdict("Ok", TRUE)

verify_slack_signature(build, at, signing_secret, timestamp, body, signature) ==
    IF parse_i64(timestamp) = None THEN Verdict("InvalidSignature", FALSE)
    ELSE IF stale(build, at, Unwrap(parse_i64(timestamp))) = "panic"
    THEN Verdict("panic", FALSE)
    ELSE IF stale(build, at, Unwrap(parse_i64(timestamp))) = "stale"
    THEN Verdict("InvalidSignature", FALSE)
    ELSE compare_signature(signing_secret, timestamp, body, signature)

\* state.config.slack_signing_secret, and a key of somebody else.
SigningSecret == "signing_secret"
ForeignKey == "foreign_key"

MaxVerified == 1

\* Bodies that parse into the payload of the endpoint, and one that does not.
Bodies == {"payload", "garbled"}

\* X-Slack-Request-Timestamp of the requests sent at the time `at`: the
\* current second, the ends of the window and the seconds next to them, the
\* start of the clock, the ends of the type and the value next to its upper
\* end, the second a full half-range in the past, a value with a sign, and
\* headers that are no integer or are missing.
TimestampHeaders(at) ==
    {to_string(at), to_string(at - SkewSeconds), to_string(at + SkewSeconds),
     to_string(at - SkewSeconds - 1), to_string(at + SkewSeconds + 1),
     to_string(Epoch), to_string(I64Min), to_string(I64Max), to_string(I64Max + 1),
     to_string(at + I64Min), to_string(at + I64Min - 1),
     <<"+">> \o to_string(at), <<"1", ".", "5">>, <<"a", "b", "c">>, <<>>}

\* X-Slack-Signature of a request: signed by the workspace, signed with a
\* foreign key, signed by the workspace for the current second, without the
\* prefix, not hex, missing.
SignatureHeaders(at, timestamp, body) ==
    {SignatureOf(SigningSecret, timestamp, body),
     SignatureOf(ForeignKey, timestamp, body),
     SignatureOf(SigningSecret, to_string(at), body),
     [prefix |-> "", hex |-> Some(hmac(SigningSecret, timestamp, body))],
     [prefix |-> "v0=", hex |-> None],
     [prefix |-> "", hex |-> None]}

\* What the handler answers: nothing when verification panics, 401 when it
\* fails, 400 when the body does not parse, else nothing yet (the task is
\* spawned first).
ResponseTo(verdict, body) ==
    CASE verdict.result = "panic" -> "aborted"
      [] verdict.result = "InvalidSignature" -> "401"
      [] body = "garbled" -> "400"
      [] OTHER -> "none"

\* handle_slash_command and handle_interaction up to tokio::spawn.
HandleRequest ==
    /\ Len(requests) < MaxVerified
    /\ \E kind \in {"command", "interaction"}, build \in Builds, body \in Bodies :
       \E timestamp \in TimestampHeaders(current_time) :
       \E signature \in SignatureHeaders(current_time, timestamp, body) :
          requests' = Append(requests,
              [kind |-> kind,
               subcommand |-> IF kind = "command" THEN "status" ELSE "view_submission",
               user |-> "U1",
               response |-> ResponseTo(verify_slack_signature(build, current_time,
                                SigningSecret, timestamp, body, signature), body),
               task |-> IF ResponseTo(verify_slack_signature(build, current_time,
                                SigningSecret, timestamp, body, signature), body) = "none"
                        THEN "spawned" ELSE "none",
               result |-> "none", acked_before |-> FALSE, effects |-> 0,
               reports |-> 0, replied |-> FALSE,
               build |-> build, at |-> current_time, timestamp |-> timestamp,
               body |-> body, signature |-> signature,
               verdict |-> verify_slack_signature(build, current_time, SigningSecret,
                                                  timestamp, body, signature)])
    /\ UNCHANGED <<dbVars, last, history, faults, notifyVars, smVars, lockVars,
                   workerVars, purge, inflight, named>>

NextVerify ==
    \/ HandleRequest
    \/ \E r \in 1..Len(requests) : Acknowledge(r)
    \/ Tick

SpecVerify == InitRequests /\ [][NextVerify]_vars

\* ------------------------------------------------------------------ C32
\* The header is an integer in decimal notation.
IsInteger(chars) ==
    IF chars # <<>> /\ Head(chars) \in {"+", "-"} THEN IsDigits(Tail(chars)) ELSE IsDigits(chars)

IntegerOf(chars) ==
    IF chars # <<>> /\ Head(chars) \in {"+", "-"}
    THEN SignedValue(Head(chars) = "-", Tail(chars))
    ELSE SignedValue(FALSE, chars)

Distance(a, b) == IF a >= b THEN a - b ELSE b - a

\* The timestamp of the request is an integer at most 300 seconds from the
\* time the request was handled.
WithinSkew(q) ==
    IsInteger(q.timestamp) /\ Distance(q.at, IntegerOf(q.timestamp)) <= SkewSeconds

CorrectlySigned(q) == q.signature = SignatureOf(SigningSecret, q.timestamp, q.body)

\* C32: a request whose timestamp is no integer or differs from the current
\* time by more than 300 seconds, in the past or in the future, is rejected
\* with InvalidSignature before the signature is compared and spawns no
\* task; a correctly signed request whose timestamp is within 300 seconds
\* (inclusive) is accepted.
C32_TimestampWindow ==
    \A r \in 1..Len(requests) :
        /\ ~WithinSkew(requests[r]) =>
               /\ requests[r].verdict = Verdict("InvalidSignature", FALSE)
               /\ requests[r].response = "401"
               /\ requests[r].task = "none"
        /\ (WithinSkew(requests[r]) /\ CorrectlySigned(requests[r])) =>
               requests[r].verdict.result = "Ok"

\* In a build without overflow checks a request stamped a full half-range of
\* the type in the past and signed by the workspace passed the freshness
\* check, had its signature compared and was accepted, and its task was
\* spawned.
C32_Witness ==
    \E r \in 1..Len(requests) :
        /\ requests[r].build = "wrapping"
        /\ IsInteger(requests[r].timestamp)
        /\ requests[r].at - IntegerOf(requests[r].timestamp) = 2 ^ (IntBits - 1)
        /\ requests[r].verdict = Verdict("Ok", TRUE)
        /\ requests[r].task = "spawned"
        /\ requests[r].response = "200"

\* In a build with overflow checks the handler of such a request panicked:
\* no 401 was sent.
C32_PanicWitness ==
    \E r \in 1..Len(requests) :
        /\ requests[r].build = "overflow_checks"
        /\ requests[r].verdict.result = "panic"
        /\ requests[r].response = "aborted"

\* The claim within the range where the arithmetic does not overflow: every
\* request stamped less than a half-range from the current time is treated
\* as the claim says.
C32_WithoutOverflow ==
    \A r \in 1..Len(requests) :
        (IsInteger(requests[r].timestamp)
            => Distance(requests[r].at, IntegerOf(requests[r].timestamp)) < 2 ^ (IntBits - 1))
          => /\ ~WithinSkew(requests[r]) =>
                    /\ requests[r].verdict = Verdict("InvalidSignature", FALSE)
                    /\ requests[r].response = "401"
                    /\ requests[r].task = "none"
             /\ (WithinSkew(requests[r]) /\ CorrectlySigned(requests[r])) =>
                    requests[r].verdict.result = "Ok"

\* ------------------------------- lifecycle calls running at the same time
\* Every command runs in a task of its own on the multi-threaded runtime and
\* takes a connection from the pool for each statement, so the statements of
\* two calls interleave freely.  The calls are made by the commander.
MaxRaceCalls == 3

raceRest == <<faults, slack_log, throttle_map, config, jobs, statuspage_mappings,
              mutex, checks, smVars, sideVars>>

Running == {c \in DOMAIN callers : callers[c].pc # "idle"}

DeclareForRace ==
    /\ DOMAIN incidents = {}
    /\ LET r == IncidentService_create_incident(DB, "P1", "api", "U1", 0)
       IN  /\ Commit(r.db)
           /\ last' = Call("create_incident", NextId(DB), "U1", None, r, None)
                          @@ [severity |-> "P1", service |-> "api"]
           /\ history' = Append(history, [op |-> "create_incident",
                                          incident_id |-> NextId(DB), noop |-> FALSE])
    /\ UNCHANGED <<callers, commands, raceRest>>

\* The call of task c has returned.
CallReturned(c, op, incident_id, res, ret, noop) ==
    /\ callers' = [callers EXCEPT ![c] = Idle]
    /\ last' = [op |-> op, incident_id |-> incident_id, actor |-> callers[c].actor,
                pre |-> Some(callers[c].pre), res |-> res, ret |-> ret, old |-> None,
                caller |-> c]
    /\ history' = IF res = "Ok"
                  THEN Append(history, [op |-> op, incident_id |-> incident_id,
                                        noop |-> noop])
                  ELSE history

\* get_by_id, validate_commander and the is_terminal check of resolve_incident.
BeginResolve(c) ==
    /\ callers[c].pc = "idle"
    /\ commands < MaxRaceCalls
    /\ \E id \in DOMAIN incidents :
          /\ validate_commander(incidents[id], incidents[id].commander_id)
          /\ commands' = commands + 1
          /\ IF is_terminal(incidents[id].status)
             THEN /\ callers' = callers
                  /\ last' = [op |-> "resolve_incident", incident_id |-> id,
                              actor |-> incidents[id].commander_id,
                              pre |-> Some(incidents[id]), res |-> "Ok",
                              ret |-> Some(incidents[id]), old |-> None, caller |-> c]
                  /\ history' = Append(history, [op |-> "resolve_incident",
                                                 incident_id |-> id, noop |-> TRUE])
             ELSE /\ callers' = [callers EXCEPT ![c] =
                         [pc |-> "update", op |-> "resolve_incident", id |-> id,
                          actor |-> incidents[id].commander_id, pre |-> incidents[id]]]
                  /\ UNCHANGED <<last, history>>
    /\ UNCHANGED <<dbVars, raceRest>>

\* The statements of resolve_incident after the check: the UPDATE of the
\* incident, the timeline event, the audit record.
ResolveStatement(c) ==
    /\ callers[c].pc # "idle"
    /\ callers[c].op = "resolve_incident"
    /\ CASE callers[c].pc = "update" ->
              /\ Commit(incident_queries_resolve_incident(DB, callers[c].id))
              /\ callers' = [callers EXCEPT ![c] =
                     [pc |-> "timeline", op |-> @.op, id |-> @.id, actor |-> @.actor,
                      pre |-> @.pre,
                      resolved_incident |->
                          incident_queries_resolve_incident(DB, callers[c].id).incidents[callers[c].id]]]
              /\ UNCHANGED <<last, history>>
         [] callers[c].pc = "timeline" ->
              /\ Commit(timeline_queries_log_event(DB, callers[c].id, "resolved",
                            DurationText(Unwrap(callers[c].resolved_incident.duration_minutes)),
                            callers[c].actor))
              /\ callers' = [callers EXCEPT ![c].pc = "audit"]
              /\ UNCHANGED <<last, history>>
         [] callers[c].pc = "audit" ->
              /\ Commit(audit_log_action(DB, Some(callers[c].id), "resolve_incident",
                            callers[c].actor, Some(callers[c].pre.status), Some("resolved")))
              /\ CallReturned(c, "resolve_incident", callers[c].id, "Ok",
                              Some(callers[c].resolved_incident), FALSE)
    /\ UNCHANGED <<commands, raceRest>>

\* get_by_id, validate_commander and the is_terminal check of
\* post_status_update.
BeginStatusUpdate(c) ==
    /\ callers[c].pc = "idle"
    /\ commands < MaxRaceCalls
    /\ \E id \in DOMAIN incidents :
          /\ validate_commander(incidents[id], incidents[id].commander_id)
          /\ commands' = commands + 1
          /\ IF is_terminal(incidents[id].status)
             THEN /\ callers' = callers
                  /\ last' = [op |-> "post_status_update", incident_id |-> id,
                              actor |-> incidents[id].commander_id,
                              pre |-> Some(incidents[id]), res |-> "ValidationError",
                              ret |-> None, old |-> None, caller |-> c]
             ELSE /\ callers' = [callers EXCEPT ![c] =
                         [pc |-> "timeline", op |-> "post_status_update", id |-> id,
                          actor |-> incidents[id].commander_id, pre |-> incidents[id]]]
                  /\ last' = last
    /\ UNCHANGED <<dbVars, history, raceRest>>

\* The statements of post_status_update after the check: the timeline event,
\* the audit record, and the incident read again.
StatusUpdateStatement(c) ==
    /\ callers[c].pc # "idle"
    /\ callers[c].op = "post_status_update"
    /\ CASE callers[c].pc = "timeline" ->
              /\ Commit(timeline_queries_log_event(DB, callers[c].id, "status_update",
                            Message("Investigating", "", "", 0, 0), callers[c].actor))
              /\ callers' = [callers EXCEPT ![c].pc = "audit"]
              /\ UNCHANGED <<last, history>>
         [] callers[c].pc = "audit" ->
              /\ Commit(audit_log_action(DB, Some(callers[c].id), "post_status_update",
                            callers[c].actor, None, None))
              /\ CallReturned(c, "post_status_update", callers[c].id, "Ok",
                              Some(incidents[callers[c].id]), FALSE)
    /\ UNCHANGED <<commands, raceRest>>

NextRace ==
    \/ DeclareForRace
    \/ \E c \in 1..MaxCallers : BeginResolve(c)
    \/ \E c \in 1..MaxCallers : ResolveStatement(c)
    \/ \E c \in 1..MaxCallers : BeginStatusUpdate(c)
    \/ \E c \in 1..MaxCallers : StatusUpdateStatement(c)

SpecRace == Init /\ [][NextRace]_vars

\* ------------------------------------------------------------------ C33
EventsOf(id, event_type) ==
    {i \in 1..Len(timeline) :
        timeline[i].incident_id = id /\ timeline[i].event_type = event_type}

AuditsOf(id, action) ==
    {i \in 1..Len(audit_log) :
        audit_log[i].incident_id = Some(id) /\ audit_log[i].action = action}

ResolveReturned(id) ==
    \E i \in 1..Len(history) :
        /\ history[i].op = "resolve_incident"
        /\ history[i].incident_id = id

C33_ResolveOnceStep ==
    \A id \in DOMAIN incidents :
        /\ Cardinality(EventsOf(id, "resolved")) <= 1
        /\ Cardinality(AuditsOf(id, "resolve_incident")) <= 1
        /\ (Running = {} /\ ResolveReturned(id)) =>
               /\ Cardinality(EventsOf(id, "resolved")) = 1
               /\ Cardinality(AuditsOf(id, "resolve_incident")) = 1
        /\ incidents[id].resolved_at # None =>
               /\ incidents'[id].resolved_at = incidents[id].resolved_at
               /\ incidents'[id].duration_minutes = incidents[id].duration_minutes

\* C33: however the resolve calls of the commander on one incident
\* interleave, the incident is resolved once: its timeline never holds more
\* than one resolved event and the audit log never more than one resolve
\* record, exactly one of each once a resolve call has returned and none is
\* running, and resolved_at and duration_minutes, once written, are never
\* written again.
C33_ResolveOnce == [][C33_ResolveOnceStep]_vars

\* Two resolve calls both passed the check before either had written: the
\* timeline holds two resolved events, the audit log two resolve records, and
\* resolved_at is later than the first resolved event.
C33_Witness ==
    \E id \in DOMAIN incidents :
        /\ Running = {}
        /\ Cardinality(EventsOf(id, "resolved")) = 2
        /\ Cardinality(AuditsOf(id, "resolve_incident")) = 2
        /\ \E i \in EventsOf(id, "resolved") :
               Unwrap(incidents[id].resolved_at) > timeline[i].timestamp

\* ------------------------------------------------------------------ C34
\* C34: however a status update and a resolve call on one incident
\* interleave, no status-update event stands after a resolved event of the
\* incident in the timeline.
C34_NoUpdateAfterResolved ==
    \A i, j \in 1..Len(timeline) :
        (/\ i < j
         /\ timeline[i].incident_id = timeline[j].incident_id
         /\ timeline[i].event_type = "resolved")
            => timeline[j].event_type # "status_update"

\* A status update passed its check, a resolve call then ran from its check
\* to its return, and the status update wrote its event and returned Ok: the
\* last event of the resolved incident is a status update.
C34_Witness ==
    /\ Running = {}
    /\ last.op = "post_status_update"
    /\ last.res = "Ok"
    /\ Unwrap(last.ret).status = "resolved"
    /\ Unwrap(last.pre).status = "declared"
    /\ Len(timeline) > 0
    /\ timeline[Len(timeline)].event_type = "status_update"
    /\ Cardinality(EventsOf(last.incident_id, "resolved")) = 1

\* ------------------------------------------------------------------ C35
\* Every operation of the service that writes to a stored incident, called
\* one after the other on one incident (and on an id that no incident has)
\* with any actor and argument.
NextLifecycle ==
    \/ CreateIncident({0}, SingleIncident)
    \/ PostStatusUpdate({0}, SingleIncident)
    \/ ChangeSeverity({0}, SingleIncident)
    \/ ResolveIncident({0}, SingleIncident)
    \/ UpdateChannelId(SingleIncident)

SpecLifecycle == Init /\ [][NextLifecycle]_vars

C35_StatusMovesForwardStep ==
    \A id \in DOMAIN incidents :
        /\ id \in DOMAIN incidents'
        /\ incidents'[id].status # incidents[id].status =>
               can_transition_to(incidents[id].status, incidents'[id].status)
        /\ StatusRank(incidents'[id].status) >= StatusRank(incidents[id].status)
        /\ incidents[id].status = "resolved" => incidents'[id].status = "resolved"

\* C35: every change of the status of a stored incident made by a lifecycle
\* operation is a transition that can_transition_to allows, the status never
\* moves to an earlier one, and a resolved incident stays resolved under
\* every later status update, severity change, resolve call and channel
\* assignment.
C35_StatusMovesForward == [][C35_StatusMovesForwardStep]_vars

\* A resolved incident got another severity and another channel, and is
\* still resolved.
C35_Witness ==
    \E id \in DOMAIN incidents :
        /\ incidents[id].status = "resolved"
        /\ \E i, j, k \in 1..Len(history) :
               /\ i < j
               /\ i < k
               /\ history[i] = [op |-> "resolve_incident", incident_id |-> id, noop |-> FALSE]
               /\ history[j] = [op |-> "change_severity", incident_id |-> id, noop |-> FALSE]
               /\ history[k] = [op |-> "update_channel_id", incident_id |-> id, noop |-> FALSE]

\* ------------------------------------------------------------------ C36
Rejections == {"NotFound", "PermissionDenied", "ValidationError"}

C36_RejectedCallStep ==
    last'.res \in Rejections =>
        /\ incidents' = incidents
        /\ timeline' = timeline
        /\ audit_log' = audit_log

\* C36: a lifecycle call that returns NotFound, PermissionDenied or
\* ValidationError leaves every incident record, the timeline and the audit
\* log as they were before the call.
C36_RejectedCallChangesNothing == [][C36_RejectedCallStep]_vars

\* With a resolved incident and an open one stored, somebody who is not its
\* commander asked for another severity of the open one and was denied.
C36_Witness ==
    /\ last.op = "change_severity"
    /\ last.res = "PermissionDenied"
    /\ IsSome(last.pre)
    /\ Unwrap(last.pre).status = "declared"
    /\ Unwrap(last.pre).severity # last.severity
    /\ \E id \in DOMAIN incidents : incidents[id].status = "resolved"

\* A resolve call for an id that no incident has was answered with NotFound.
C36_KindsWitness ==
    /\ last.op = "resolve_incident"
    /\ last.res = "NotFound"
    /\ Len(timeline) > 1

\* ------------------------------------------------------------------ C37
Pairs(notification_type, recipients) ==
    [i \in 1..Len(recipients) |-> <<notification_type, recipients[i]>>]

\* The recipients of an incident's severity in the order of the routing: the
\* incident's channel, the broadcast channels as configured, the P1 recipients
\* as configured.
RouteOrder(cfg, incident) ==
    CASE incident.severity = "P1" ->
            Pairs("slack_channel", OwnChannel(incident) \o cfg.p1_channels)
                \o Pairs("slack_dm", cfg.p1_users)
      [] incident.severity = "P2" ->
            Pairs("slack_channel", OwnChannel(incident) \o cfg.p2_channels)
      [] OTHER -> Pairs("slack_channel", OwnChannel(incident))

Addressed(rows) == [i \in 1..Len(rows) |-> <<rows[i].notification_type, rows[i].recipient>>]

IsFailedPost(row) == row.notification_type = "slack_channel" /\ row.status = "failed"

C37_RoutingOrderStep ==
    Notified' =>
        /\ IsPrefix(Addressed(NewRows), RouteOrder(config, Unwrap(last'.ret)))
        /\ Recipients(SelectSeq(NewRows, IsAttempt))
               = [i \in 1..Len(RouterCalls') |-> RouterCalls'[i].recipient]
        /\ \A i \in 1..Len(NewRows) :
               IsFailedPost(NewRows[i]) =>
                   /\ i = Len(NewRows)
                   /\ last'.notify = "SlackAPIError"
        /\ (/\ last'.op \in {"declare", "resolved"}
            /\ \A i \in 1..Len(NewRows) : ~IsFailedPost(NewRows[i]))
               => Addressed(NewRows) = RouteOrder(config, Unwrap(last'.ret))

\* C37: the routing of a notification addresses its recipients in a fixed
\* order, the incident's channel, then the broadcast channels of the severity
\* in configuration order, then the P1 recipients in configuration order, and
\* ends at the first channel post that fails: the failure is the result of
\* the notification call, and no recipient after the failed channel is
\* called or gets a notification record.
C37_RoutingOrder == [][C37_RoutingOrderStep]_vars

\* The post to the channel of a P1 incident failed when the incident was
\* resolved: it is the only call and the only record of the notification, no
\* broadcast channel and no P1 recipient was tried.
C37_Witness ==
    /\ Notified
    /\ last.op = "resolved"
    /\ Unwrap(last.ret).severity = "P1"
    /\ last.notify = "SlackAPIError"
    /\ Len(RouterCalls) = 1
    /\ RouterCalls[1].method = "post_message"
    /\ Some(RouterCalls[1].recipient) = Unwrap(last.ret).slack_channel_id
    /\ ~RouterCalls[1].ok
    /\ notifications[Len(notifications)].status = "failed"
    /\ notifications[Len(notifications)].recipient = RouterCalls[1].recipient
    /\ Len(notifications) > 1 => notifications[Len(notifications) - 1].status # "failed"

\* ------------------------------------------------------------------ C38
\* The DM records a step adds, and the first of them for a recipient.
NewDmRows == SelectSeq(NewRows, IsDm)

FirstFor(rows, recipient) == CHOOSE i \in 1..Len(rows) :
    /\ rows[i].recipient = recipient
    /\ \A j \in 1..(i - 1) : rows[j].recipient # recipient

C38_CooldownFromCheckStep ==
    Notified' =>
        \A i \in 1..Len(NewDmRows) :
            LET row == NewDmRows[i]
                key == <<row.recipient, row.incident_id>>
                first == NewDmRows[FirstFor(NewDmRows, row.recipient)]
            IN  /\ key \in DOMAIN throttle_map'
                /\ first.status \in {"sent", "failed"}
                /\ throttle_map'[key] <= first.sent_at
                /\ (i # FirstFor(NewDmRows, row.recipient)
                        /\ row.sent_at - throttle_map'[key] < ThrottleSeconds)
                       => row.status = "throttled"

\* C38: the throttle map takes the time of a (recipient, incident) pair when
\* the check lets the DM through, before the DM is attempted and whether it
\* is delivered or not: the time recorded for a pair is not later than the
\* record of its first attempt, sent or failed, a further attempt for the pair
\* on the same map within 5 minutes is logged throttled also when the first
\* one failed, and the throttled attempt leaves the recorded time where it
\* was.
C38_CooldownFromCheck == [][C38_CooldownFromCheckStep]_vars

\* The first DM to a recipient named twice failed, the DM to the next
\* recipient was sent, and the second entry of the first recipient was
\* throttled: nothing was delivered to that recipient.
C38_Witness ==
    /\ Notified
    /\ \E i, j, k \in 1..Len(notifications) :
          /\ i < j
          /\ j < k
          /\ IsDm(notifications[i])
          /\ IsDm(notifications[j])
          /\ IsDm(notifications[k])
          /\ notifications[i].status = "failed"
          /\ notifications[j].status = "sent"
          /\ notifications[k].status = "throttled"
          /\ notifications[k].recipient = notifications[i].recipient
          /\ notifications[k].incident_id = notifications[i].incident_id
          /\ <<notifications[i].recipient, notifications[i].incident_id>> \in DOMAIN throttle_map
          /\ throttle_map[<<notifications[i].recipient, notifications[i].incident_id>>]
                 <= notifications[i].sent_at
          /\ \A m \in 1..Len(notifications) :
                 notifications[m].recipient = notifications[i].recipient
                     => notifications[m].status # "sent"

\* ------------------------------------------------------------------ C39
\* The jobs sent for a component and the updates the status page has taken
\* for it, each in its own order.
JobsFor(component_id) == SelectSeq(jobs, LAMBDA job : job.component_id = component_id)

UpdatesFor(component_id) == SelectSeq(statuspage_log, LAMBDA row : row.component_id = component_id)

Components == {jobs[i].component_id : i \in 1..Len(jobs)}

\* Every job sent has been received and its task has finished with the
\* status page answering success.
AllSynced ==
    /\ statuspage_client # None
    /\ received = Len(jobs)
    /\ \A t \in 1..Len(tasks) : tasks[t].state = "done" /\ tasks[t].response = "success"

\* The receiver hands the jobs out in the order they were sent.
C39_DequeuedInOrder ==
    /\ received = Len(tasks)
    /\ received <= Len(jobs)
    /\ \A t \in 1..Len(tasks) : tasks[t].job = jobs[t]

\* C39: the jobs are taken from the queue in the order they were sent and the
\* updates of a component take effect in that order: once every job has
\* completed, the updates the status page took for a component are those of
\* its jobs in the order sent, and the component shows the status derived from
\* the job sent last (operational after the resolve job).
C39_UpdatesInEnqueueOrder ==
    /\ C39_DequeuedInOrder
    /\ AllSynced =>
          \A component_id \in Components :
              LET sent == JobsFor(component_id)
                  taken == UpdatesFor(component_id)
              IN  /\ Len(taken) = Len(sent)
                  /\ \A i \in 1..Len(sent) :
                         taken[i].status = map_status(sent[i].status, sent[i].severity)

\* The job of a declaration and the job of the resolution were received in
\* that order and both updates succeeded, the one of the resolution first:
\* with nothing left to run the component shows an outage for a resolved
\* incident.
C39_Witness ==
    /\ AllSynced
    /\ C39_DequeuedInOrder
    /\ Len(jobs) >= 2
    /\ jobs[Len(jobs)].status = "resolved"
    /\ \A i \in 1..Len(jobs) : jobs[i].incident_id = jobs[Len(jobs)].incident_id
    /\ Len(statuspage_log) = Len(jobs)
    /\ statuspage_log[Len(statuspage_log)].component_id = jobs[Len(jobs)].component_id
    /\ statuspage_log[Len(statuspage_log)].status # "operational"
    /\ \E i \in 1..Len(incidents) :
          /\ incidents[i].id = jobs[Len(jobs)].incident_id
          /\ incidents[i].status = "resolved"

\* ------------------------------------------------------ the postmortem command
\* PostmortemService::generate: the draft made of the incident's columns, its
\* duration as hours and minutes ("unknown" without one) and its timeline;
\* `resolved_at.expect(..)` panics on an incident without resolved_at.
PostmortemService_generate(incident, events) ==
    IF incident.resolved_at = None THEN [res |-> "panic"]
    ELSE [res |-> "Ok",
          incident_id |-> incident.id,
          duration_text |-> IF incident.duration_minutes = None THEN <<"unknown">>
                            ELSE LET duration == Unwrap(incident.duration_minutes)
                                 IN  IF duration \div 60 > 0
                                     THEN <<duration \div 60, "h", duration % 60, "min">>
                                     ELSE <<duration % 60, "min">>,
          severity |-> incident.severity,
          affected_service |-> incident.affected_service,
          commander_id |-> incident.commander_id,
          timeline_md |-> events]

NoDraft(w, response_url, reply, found, fails) ==
    [w |-> post_to_response_url(w, response_url, fails),
     res |-> IF fails THEN "SlackAPIError" ELSE "Ok",
     reply |-> reply, found |-> found, draft |-> None]

\* handle_postmortem: the incident is looked up with get_by_channel, the
\* statement of which leaves resolved incidents out.
handle_postmortem(w, channel_id, response_url, events, down, fails) ==
    LET found == get_incident_by_channel(w.db, channel_id) IN
    IF found = None
    THEN NoDraft(w, response_url, "No active incident in this channel", None, fails)
    ELSE IF ~is_terminal(Unwrap(found).status)
    THEN NoDraft(w, response_url, "Incident must be resolved before generating postmortem",
                 found, fails)
    ELSE LET draft == PostmortemService_generate(Unwrap(found), events)
             channel == Unwrap(found).slack_channel_id
             w1 == IF IsSome(channel) THEN post_message(w, Unwrap(channel), down) ELSE w
         IN  IF draft.res = "panic"
             THEN [w |-> w, res |-> "panic", reply |-> "", found |-> found, draft |-> None]
             ELSE IF IsSome(channel) /\ Unwrap(channel) \in down
             THEN [w |-> w1, res |-> "SlackAPIError", reply |-> "", found |-> found,
                   draft |-> Some(draft)]
             ELSE [w |-> post_to_response_url(w1, response_url, fails),
                   res |-> IF fails THEN "SlackAPIError" ELSE "Ok",
                   reply |-> "Postmortem draft posted to channel",
                   found |-> found, draft |-> Some(draft)]

\* The timelines a draft can be made of: the orders get_timeline can return
\* for the incidents bound to the channel, or none.
DraftTimelines(db, channel_id) ==
    {<<>>} \cup UNION {get_timeline(db, i) : i \in BoundTo(db, channel_id)}

\* `/incident postmortem` in a channel, after some other command.
PostmortemCommand ==
    /\ last.op # "postmortem"
    /\ \E channel_id \in Channels, user \in Users, fails \in BOOLEAN :
       \E down \in {{}, {channel_id}}, events \in DraftTimelines(DB, channel_id) :
          LET o == handle_postmortem(World, channel_id, ResponseUrl(user), events, down, fails)
          IN  /\ CommitWorld(o.w)
              /\ last' = [op |-> "postmortem", channel_id |-> channel_id, actor |-> user,
                          res |-> o.res, reply |-> o.reply, found |-> o.found,
                          draft |-> o.draft, slack_from |-> Len(slack_log)]
    /\ UNCHANGED <<history, faults, config, commands, statuspage_mappings, smVars, lockVars,
                   sideVars>>

\* Incidents are declared and resolved through their commands and the
\* postmortem command is issued in their channels.
NextPostmortem ==
    \/ DeclareCommand
    \/ ResolvedCommand
    \/ PostmortemCommand

SpecPostmortem == InitNotify /\ [][NextPostmortem]_vars

\* ------------------------------------------------------------------ C40
\* The chat-client calls the last command made.
CallsOfLast == SubSeq(slack_log, last.slack_from + 1, Len(slack_log))

DraftPosted ==
    /\ last.draft # None
    /\ \E i \in 1..Len(CallsOfLast) :
          /\ CallsOfLast[i].method = "post_message"
          /\ CallsOfLast[i].recipient = last.channel_id

\* A postmortem command in the channel of an unresolved incident generates
\* nothing, posts nothing to the channel and replies that the incident must
\* be resolved first.
C40_UnresolvedRefused ==
    last.op = "postmortem" =>
        \A i \in BoundTo(DB, last.channel_id) :
            incidents[i].status # "resolved" =>
                /\ last.draft = None
                /\ ~DraftPosted
                /\ last.reply = "Incident must be resolved before generating postmortem"

\* C40: a postmortem command issued in the channel of a resolved incident
\* finds that incident, generates its draft and posts it to the channel; in
\* the channel of an incident that is not resolved it generates nothing and
\* replies that the incident must be resolved first.
C40_PostmortemAfterResolution ==
    /\ C40_UnresolvedRefused
    /\ (last.op = "postmortem" /\ last.res # "SlackAPIError") =>
          \A i \in BoundTo(DB, last.channel_id) :
              incidents[i].status = "resolved" =>
                  /\ last.found = Some(incidents[i])
                  /\ DraftPosted
                  /\ Unwrap(last.draft).incident_id = incidents[i].id

\* The incident of the channel was declared and resolved, the postmortem
\* command was issued in its channel with every chat call working: no
\* incident was found, no draft was made, nothing was posted to the channel,
\* and the reply says the channel has no active incident.
C40_Witness ==
    /\ last.op = "postmortem"
    /\ last.res = "Ok"
    /\ \E i \in BoundTo(DB, last.channel_id) :
          /\ incidents[i].status = "resolved"
          /\ incidents[i].resolved_at # None
    /\ BoundTo(DB, last.channel_id) # {}
    /\ \A i \in BoundTo(DB, last.channel_id) : incidents[i].status = "resolved"
    /\ last.found = None
    /\ last.draft = None
    /\ ~DraftPosted
    /\ last.reply = "No active incident in this channel"
    /\ Len(CallsOfLast) = 1
    /\ CallsOfLast[1].method = "post_to_response_url"
====
